---------------------------- MODULE Spec2Model ----------------------------
(***************************************************************************)
(* Conversation state machine of the agentic crop advisor: the LangGraph   *)
(* turn loop (intake -> plan -> (weather|web -> plan)* -> ask|advice), the *)
(* rule-based router, the tool adapters' failure behaviour, and the        *)
(* guardrail / sanitize pass over a synthesized Advisory.                   *)
(*                                                                         *)
(* Conventions.  An Optional[T] value is a sequence: <<>> is None and      *)
(* <<v>> is the value v.  A text (headline, action line, user message) is  *)
(* a sequence of tokens; joining texts with " " is concatenation.  Times   *)
(* are whole hours.  Latitudes and longitudes are whole degrees.           *)
(***************************************************************************)
EXTENDS Integers, Sequences, FiniteSets, TLC

VARIABLES
    \* ---- one session handled by on_text / run_turn -------------------
    stored,     \* the GraphState saved in the store for the chat
    s,          \* the GraphState threaded through the running graph
    pc,         \* "idle", or the node about to run, or "end" / "raised"
    exc,        \* the exception that left run_turn ("none" when none)
    calls,      \* how often each adapter was called in the running turn
    now,        \* the UTC clock, in hours
    ticks,      \* how many times the clock has advanced
    ran,        \* the nodes that ran in the running turn, "failed" once
                \* a weather or web call of the turn has failed, and
                \* "extract_failed" / "synth_failed" when the extractor /
                \* the synthesizer has failed
    \* ---- guardrail evaluation of one Advisory (GuardSpec) -------------
    gpc,        \* "input", "evaluated", "sanitized"
    gadv,       \* the Advisory under evaluation
    gstate,     \* the state fields _guardrails reads
    guard,      \* the GuardrailResult
    gout,       \* the sanitized Advisory
    \* ---- one application of a pure function ---------------------------
    mrg,        \* an intake merge of a partial update (MergeSpec)
    frs,        \* a freshness test of a snapshot (FreshSpec)
    prs,        \* the construction of an Advisory (ParseSpec)
    sto         \* the session store and the state last loaded (StoreSpec)

vars ==
    <<stored, s, pc, exc, calls, now, ticks, ran, gpc, gadv, gstate, guard,
      gout, mrg, frs, prs, sto>>
turnVars == <<stored, s, pc, exc, calls, now, ticks, ran>>
guardVars == <<gpc, gadv, gstate, guard, gout>>
pureVars == <<mrg, frs, prs, sto>>

None == <<>>
Some(v) == <<v>>

-----------------------------------------------------------------------------
(* Bounds of the model.                                                    *)

MaxTurns == 2        \* turns per session that are explored
MaxTicks == 1        \* clock advances that are explored
CallCap == 2         \* calls of one adapter per turn that are counted
MaxActions == 2      \* action lines of an Advisory in GuardSpec
MaxNotes == 6        \* safety notes the synthesizer supplies in GuardSpec
MaxMerges == 2       \* consecutive intake merges in MergeSpec
MaxFetchHour == 2    \* latest fetch time of a snapshot in FreshSpec
HistTurns == 8       \* turns of the session HistSpec starts from
MaxRounds == 2       \* turns each handler runs in ConcSpec
MaxTokens == 5       \* tokens of a message in CoordSpec
MaxOutcomes == 4     \* outcomes the network holds ready for one call in RetrySpec

-----------------------------------------------------------------------------
(* Text: tokens, case folding and the risky patterns.                      *)

\* str.lower() / re.IGNORECASE on one token.
Fold(t) ==
    CASE t = "Mix" -> "mix"
      [] t = "ML"  -> "ml"
      [] OTHER     -> t

\* \d+(\.\d+)? : the tokens that are one number.
NUMBERS == {"0", "5", "19", "72", "95", "200", "-95", "-200"}

\* (ml|mL|l|L|g|gm|kg) of the first risky pattern.
DOSE_UNITS == {"ml", "l", "g", "gm", "kg"}

\* (l|L|liter|litre|kg) of the second risky pattern.
PER_UNITS == {"l", "liter", "litre", "kg"}

\* Tokens in which a number is directly followed by a unit ("5ml"), and
\* tokens in which "/" follows a word character and precedes a unit ("ml/l").
NUMBER_UNIT_WORDS == {"5ml"}
SLASH_UNIT_WORDS == {"ml/l"}

\* r"\b\d+(\.\d+)?\s*(ml|mL|l|L|g|gm|kg)\b" with re.IGNORECASE
MatchNumberUnit(text) ==
    \E i \in 1..Len(text) :
        \/ Fold(text[i]) \in NUMBER_UNIT_WORDS
        \/ /\ text[i] \in NUMBERS
           /\ i < Len(text)
           /\ Fold(text[i + 1]) \in DOSE_UNITS

\* r"\b(per|/)\s*(l|L|liter|litre|kg)\b" with re.IGNORECASE
MatchPerUnit(text) ==
    \E i \in 1..Len(text) :
        \/ Fold(text[i]) \in SLASH_UNIT_WORDS
        \/ /\ Fold(text[i]) = "per"
           /\ i < Len(text)
           /\ Fold(text[i + 1]) \in PER_UNITS

\* r"\bmix\b", r"\bdose\b", r"\bppm\b" with re.IGNORECASE
MatchWord(w, text) == \E i \in 1..Len(text) : Fold(text[i]) = w

\* risky_patterns of _guardrails, searched in order.
risky_patterns == <<"number_unit", "per_unit", "mix", "dose", "ppm">>

re_search(pat, text) ==
    CASE pat = "number_unit" -> MatchNumberUnit(text)
      [] pat = "per_unit"    -> MatchPerUnit(text)
      [] OTHER               -> MatchWord(pat, text)

\* " ".join(lines)
RECURSIVE Join(_)
Join(lines) ==
    IF lines = <<>> THEN <<>> ELSE Head(lines) \o Join(Tail(lines))

\* v[:n]
Take(v, n) == IF Len(v) <= n THEN v ELSE SubSeq(v, 1, n)

-----------------------------------------------------------------------------
(* Guardrail engine.                                                       *)

REASON_DOSAGE == <<"Contains potentially unsafe dosage/mixing-style details.">>
REASON_URGENCY == <<"High urgency reported; recommend expert verification.">>
REASON_ALERTS == <<"Weather alerts present; recommend extra caution.">>
DISCLAIMER == <<"Avoid chemical dosage/mixing without local expert guidance.">>
FALLBACK_ACTION ==
    <<"Consult a local agriculture officer/extension worker for treatment options.">>

\* joined = " ".join([headline] + actions_now + watch_out_for).lower()
JoinedText(advisory) ==
    Join(<<advisory.headline>> \o advisory.actions_now \o advisory.watch_out_for)

\* The for-loop over risky_patterns: one reason at the first match, then break.
TextIsRisky(advisory) ==
    \E k \in 1..Len(risky_patterns) :
        re_search(risky_patterns[k], JoinedText(advisory))

\* state.weather and state.weather.alerts
HasAlerts(weather) == weather # None /\ weather[1].alerts # <<>>

\* _guardrails without the check of the weather alerts.
_guardrails_without_alerts(advisory, state) ==
    LET r1 == IF TextIsRisky(advisory) THEN <<REASON_DOSAGE>> ELSE <<>>
        r2 == IF state.observation.urgency = "high"
              THEN <<REASON_URGENCY>> ELSE <<>>
        reasons == r1 \o r2
        needs_human == reasons # <<>>
    IN  [ok |-> ~needs_human, reasons |-> reasons,
         needs_human_review |-> needs_human]

_guardrails(advisory, state) ==
    LET r1 == IF TextIsRisky(advisory) THEN <<REASON_DOSAGE>> ELSE <<>>
        r2 == IF state.observation.urgency = "high"
              THEN <<REASON_URGENCY>> ELSE <<>>
        r3 == IF HasAlerts(state.weather) THEN <<REASON_ALERTS>> ELSE <<>>
        reasons == r1 \o r2 \o r3
        needs_human == reasons # <<>>
    IN  [ok |-> ~needs_human, reasons |-> reasons,
         needs_human_review |-> needs_human]

\* is_risky_line of _sanitize_advisory: two searches, number-unit and
\* mix|dose|ppm; an empty line is not risky.
is_risky_line(line) ==
    /\ line # <<>>
    /\ \/ re_search("number_unit", line)
       \/ MatchWord("mix", line) \/ MatchWord("dose", line)
       \/ MatchWord("ppm", line)

\* [a for a in lines if not is_risky_line(a)]
RECURSIVE SafeLines(_)
SafeLines(lines) ==
    IF lines = <<>> THEN <<>>
    ELSE IF is_risky_line(Head(lines))
         THEN SafeLines(Tail(lines))
         ELSE <<Head(lines)>> \o SafeLines(Tail(lines))

\* _sanitize_advisory that leaves the synthesizer's confidence in place.
_sanitize_keeps_confidence(advisory, g) ==
    IF ~g.needs_human_review THEN advisory
    ELSE
        LET kept == SafeLines(advisory.actions_now)
            safe_actions == IF Len(kept) = 0 THEN <<FALLBACK_ACTION>> ELSE kept
            safety_notes ==
                advisory.safety_notes \o <<DISCLAIMER>> \o Take(g.reasons, 2)
        IN  [advisory EXCEPT
                !.actions_now = Take(safe_actions, 7),
                !.safety_notes = Take(safety_notes, 6),
                !.needs_human_review = TRUE]

\* _sanitize_advisory without the fallback action.
_sanitize_without_fallback(advisory, g) ==
    IF ~g.needs_human_review THEN advisory
    ELSE
        LET safe_actions == SafeLines(advisory.actions_now)
            safety_notes ==
                advisory.safety_notes \o <<DISCLAIMER>> \o Take(g.reasons, 2)
        IN  [advisory EXCEPT
                !.actions_now = Take(safe_actions, 7),
                !.safety_notes = Take(safety_notes, 6),
                !.needs_human_review = TRUE,
                !.confidence = "low"]

_sanitize_advisory(advisory, g) ==
    IF ~g.needs_human_review THEN advisory
    ELSE
        LET kept == SafeLines(advisory.actions_now)
            safe_actions == IF Len(kept) = 0 THEN <<FALLBACK_ACTION>> ELSE kept
            safety_notes ==
                advisory.safety_notes \o <<DISCLAIMER>> \o Take(g.reasons, 2)
        IN  [advisory EXCEPT
                !.actions_now = Take(safe_actions, 7),
                !.safety_notes = Take(safety_notes, 6),
                !.needs_human_review = TRUE,
                !.confidence = "low"]

-----------------------------------------------------------------------------
(* Strings of the data model.  A " " token is leading or trailing          *)
(* whitespace; LONG_TEXT is a paragraph of more than 120 characters.       *)

LONG_TEXT == "<a paragraph of 130 characters>"

\* len() of one token, in characters.
TokChars(t) ==
    CASE t = LONG_TEXT -> 130
      [] t \in {"ok", "19", "72", "95"} -> 2
      [] t \in {"0", "5", ",", " "} -> 1
      [] OTHER -> 6

\* len(text): the tokens and the single spaces between them.
RECURSIVE CharLen(_)
CharLen(text) ==
    IF text = <<>> THEN 0
    ELSE TokChars(Head(text)) + (IF Len(text) > 1 THEN 1 ELSE 0)
         + CharLen(Tail(text))

\* str.strip()
RECURSIVE LStrip(_)
LStrip(text) ==
    IF text # <<>> /\ Head(text) = " " THEN LStrip(Tail(text)) ELSE text

RECURSIVE StrStrip(_)
StrStrip(text) ==
    LET l == LStrip(text)
    IN  IF l # <<>> /\ l[Len(l)] = " "
        THEN StrStrip(SubSeq(l, 1, Len(l) - 1))
        ELSE l

\* str.lower() on one token of the data model.
LowerTok(t) ==
    CASE t = "Wheat"      -> "wheat"
      [] t = "Vegetative" -> "vegetative"
      [] t = "HIGH"       -> "high"
      [] t = "Yellowing"  -> "yellowing"
      [] OTHER            -> Fold(t)

\* str.lower()
StrLower(text) == [i \in 1..Len(text) |-> LowerTok(text[i])]

\* `v and v.strip()` for an Optional[str]
NonBlank(v) == v # None /\ v[1] # <<>> /\ StrStrip(v[1]) # <<>>

\* Truthiness of an Optional[float]: None and 0.0 are falsy.
Truthy(x) == x # None /\ x[1] # 0

\* Truthiness of an Optional[str]: None and "" are falsy.
TruthyStr(v) == v # None /\ v[1] # <<>>

-----------------------------------------------------------------------------
(* Data model (models.py).                                                 *)

CropStage ==
    {"unknown", "pre_sowing", "sowing", "germination", "vegetative",
     "flowering", "fruiting", "maturity", "harvest", "post_harvest"}

FarmerContext ==
    [crop |-> None, stage |-> "unknown", location_text |-> None,
     lat |-> None, lon |-> None, sowing_date |-> None, irrigation |-> None,
     soil_type |-> None, notes |-> None]

Observation == [symptoms |-> <<>>, pests_seen |-> <<>>, urgency |-> "low"]

\* GraphState(chat_id="chat1"): the fresh state of a session.
GraphState ==
    [chat_id |-> "chat1",
     messages |-> <<>>, context |-> FarmerContext, observation |-> Observation,
     weather |-> None, web |-> None, advisory |-> None, last_node |-> None,
     turn_count |-> 0]

MAX_MESSAGES == 16

add_user(st, text) ==
    [st EXCEPT !.messages = Append(@, [role |-> "user", content |-> text])]

add_assistant(st, text) ==
    [st EXCEPT !.messages = Append(@, [role |-> "assistant", content |-> text])]

\* self.messages[-max_messages:] when longer than max_messages
compact_messages(st) ==
    IF Len(st.messages) > MAX_MESSAGES
    THEN [st EXCEPT !.messages =
            SubSeq(@, Len(@) - MAX_MESSAGES + 1, Len(@))]
    ELSE st

\* The field validators of Advisory: strip, drop blank entries, cap.
RECURSIVE CleanLines(_)
CleanLines(v) ==
    IF v = <<>> THEN <<>>
    ELSE IF Head(v) # <<>> /\ StrStrip(Head(v)) # <<>>
         THEN <<StrStrip(Head(v))>> \o CleanLines(Tail(v))
         ELSE CleanLines(Tail(v))

\* safe_parse_advisory: Advisory.model_validate(data); None stands for the
\* ValidationError.
safe_parse_advisory(data) ==
    IF /\ CharLen(data.headline) >= 3 /\ CharLen(data.headline) <= 120
       /\ data.stage \in CropStage
       /\ data.confidence \in {"low", "medium", "high"}
    THEN Some([data EXCEPT
                !.actions_now = Take(CleanLines(@), 7),
                !.watch_out_for = Take(CleanLines(@), 5),
                !.next_questions = Take(CleanLines(@), 3)])
    ELSE None

-----------------------------------------------------------------------------
(* Freshness policy.                                                       *)

WEATHER_MAX_AGE_HOURS == 6
WEB_MAX_AGE_HOURS == 24

\* datetime.isoformat(timespec="seconds") of a UTC time, as the tools write
\* it ("2026-01-31T12:00:00+00:00").
IsoFormat(t) == <<"iso", t>>

\* The same time written without an offset ("2026-01-31T12:00:00").
IsoFormatNaive(t) == <<"iso-naive", t>>

\* _parse_iso_dt: datetime.fromisoformat, None when the string does not
\* parse.  A string without an offset parses to a naive datetime.
_parse_iso_dt(str) ==
    IF Len(str) = 2 /\ str[1] \in {"iso", "iso-naive"}
    THEN Some([hour |-> str[2], aware |-> str[1] = "iso"])
    ELSE None

\* `_utc_now() - dt` raises TypeError when dt is naive: _utc_now() is aware.
StaleRaises(snapshot) ==
    /\ snapshot # None
    /\ _parse_iso_dt(snapshot[1].fetched_at_utc) # None
    /\ ~_parse_iso_dt(snapshot[1].fetched_at_utc)[1].aware

\* if not snapshot / if not dt / (now - dt) > timedelta(hours=max_age_hours)
\* The value where the subtraction does not raise.
IsStale(snapshot, clock, max_age_hours) ==
    IF snapshot = None THEN TRUE
    ELSE LET dt == _parse_iso_dt(snapshot[1].fetched_at_utc)
         IN  IF dt = None THEN TRUE
             ELSE CASE dt[1].aware -> (clock - dt[1].hour) > max_age_hours

\* _is_weather_stale that takes every snapshot for stale.
_is_weather_stale_always(state, clock) == TRUE

_is_weather_stale(state, clock) ==
    IsStale(state.weather, clock, WEATHER_MAX_AGE_HOURS)

_is_web_stale(state, clock) == IsStale(state.web, clock, WEB_MAX_AGE_HOURS)

-----------------------------------------------------------------------------
(* Merge engine.                                                           *)

\* The partial update the extractor returns (IntakeExtraction defaults).
IntakeExtraction ==
    [crop |-> None, stage |-> None, location_text |-> None,
     sowing_date |-> None, irrigation |-> None, soil_type |-> None,
     notes |-> None, symptoms |-> <<>>, pests_seen |-> <<>>, urgency |-> None]

\* The stage mapping comparing the stage as typed, without lower().
NormalStage_without_lower(text) ==
    LET st == StrStrip(text)
    IN  IF Len(st) = 1 /\ st[1] \in CropStage THEN st[1] ELSE "unknown"

\* stage.strip().lower() kept when it is one of the allowed stages
NormalStage(text) ==
    LET st == StrLower(StrStrip(text))
    IN  IF Len(st) = 1 /\ st[1] \in CropStage THEN st[1] ELSE "unknown"

\* The context merge writing every field the update holds, blank or not.
_merge_context_writing_blank(old, upd) ==
    LET Put(v, o) == IF v # None THEN Some(StrStrip(v[1])) ELSE o
    IN  [old EXCEPT
            !.crop = IF upd.crop # None
                     THEN Some(StrLower(StrStrip(upd.crop[1]))) ELSE @,
            !.stage = IF NonBlank(upd.stage)
                      THEN NormalStage(upd.stage[1]) ELSE @,
            !.location_text = Put(upd.location_text, @),
            !.sowing_date = Put(upd.sowing_date, @),
            !.irrigation = Put(upd.irrigation, @),
            !.soil_type = Put(upd.soil_type, @),
            !.notes = Put(upd.notes, @)]

_merge_context(old, upd) ==
    [old EXCEPT
        !.crop = IF NonBlank(upd.crop)
                 THEN Some(StrLower(StrStrip(upd.crop[1]))) ELSE @,
        !.stage = IF NonBlank(upd.stage) THEN NormalStage(upd.stage[1]) ELSE @,
        !.location_text = IF NonBlank(upd.location_text)
                          THEN Some(StrStrip(upd.location_text[1])) ELSE @,
        !.sowing_date = IF NonBlank(upd.sowing_date)
                        THEN Some(StrStrip(upd.sowing_date[1])) ELSE @,
        !.irrigation = IF NonBlank(upd.irrigation)
                       THEN Some(StrStrip(upd.irrigation[1])) ELSE @,
        !.soil_type = IF NonBlank(upd.soil_type)
                      THEN Some(StrStrip(upd.soil_type[1])) ELSE @,
        !.notes = IF NonBlank(upd.notes)
                  THEN Some(StrStrip(upd.notes[1])) ELSE @]

\* The loop comparing the entries as typed, without lower().
RECURSIVE MergeUnique_case_sensitive(_, _)
MergeUnique_case_sensitive(have, new) ==
    IF new = <<>> THEN have
    ELSE LET x == StrStrip(Head(new))
         IN  IF x # <<>> /\ x \notin {have[i] : i \in 1..Len(have)}
             THEN MergeUnique_case_sensitive(Append(have, x), Tail(new))
             ELSE MergeUnique_case_sensitive(have, Tail(new))

\* The loop `for s in upd.symptoms`: append s.strip() unless blank or
\* already present case-insensitively.
RECURSIVE MergeUnique(_, _)
MergeUnique(have, new) ==
    IF new = <<>> THEN have
    ELSE LET x == StrStrip(Head(new))
             seen == {StrLower(have[i]) : i \in 1..Len(have)}
         IN  IF x # <<>> /\ StrLower(x) \notin seen
             THEN MergeUnique(Append(have, x), Tail(new))
             ELSE MergeUnique(have, Tail(new))

UrgencyOrder(u) == CASE u = "low" -> 0 [] u = "medium" -> 1 [] u = "high" -> 2

\* The urgency merge taking a recognised update as it comes.
MergeUrgency_takes_update(old, upd) ==
    IF ~TruthyStr(upd) THEN old
    ELSE LET u == StrLower(StrStrip(upd[1]))
         IN  IF Len(u) = 1 /\ u[1] \in {"low", "medium", "high"}
             THEN u[1] ELSE old

MergeUrgency(old, upd) ==
    IF ~TruthyStr(upd) THEN old
    ELSE LET u == StrLower(StrStrip(upd[1]))
         IN  IF Len(u) = 1 /\ u[1] \in {"low", "medium", "high"}
                /\ UrgencyOrder(u[1]) > UrgencyOrder(old)
             THEN u[1] ELSE old

_merge_observation(old, upd) ==
    [symptoms |-> MergeUnique(old.symptoms, upd.symptoms),
     pests_seen |-> MergeUnique(old.pests_seen, upd.pests_seen),
     urgency |-> MergeUrgency(old.urgency, upd.urgency)]

-----------------------------------------------------------------------------
(* Router and the ask question.                                            *)

\* _route with the web rule tried before the weather rule.
_route_web_before_weather(state, clock) ==
    LET c == state.context
    IN  IF ~(Truthy(c.lat) /\ Truthy(c.lon)) /\ ~NonBlank(c.location_text)
        THEN "ask"
        ELSE IF ~NonBlank(c.crop) THEN "ask"
        ELSE IF c.stage = "unknown" THEN "ask"
        ELSE IF state.observation.symptoms # <<>> /\ _is_web_stale(state, clock)
        THEN "web"
        ELSE IF Truthy(c.lat) /\ Truthy(c.lon) /\ _is_weather_stale(state, clock)
        THEN "weather"
        ELSE "advice"

\* _route without the gate on the crop stage.
_route_without_stage_gate(state, clock) ==
    LET c == state.context
    IN  IF ~(Truthy(c.lat) /\ Truthy(c.lon)) /\ ~NonBlank(c.location_text)
        THEN "ask"
        ELSE IF ~NonBlank(c.crop) THEN "ask"
        ELSE IF Truthy(c.lat) /\ Truthy(c.lon) /\ _is_weather_stale(state, clock)
        THEN "weather"
        ELSE IF state.observation.symptoms # <<>> /\ _is_web_stale(state, clock)
        THEN "web"
        ELSE "advice"

\* _route selecting ask also for reported symptoms without web results.
_route_asking_about_symptoms(state, clock) ==
    LET c == state.context
    IN  IF ~(Truthy(c.lat) /\ Truthy(c.lon)) /\ ~NonBlank(c.location_text)
        THEN "ask"
        ELSE IF ~NonBlank(c.crop) THEN "ask"
        ELSE IF c.stage = "unknown" THEN "ask"
        ELSE IF state.observation.symptoms # <<>> /\ state.web = None
        THEN "ask"
        ELSE IF Truthy(c.lat) /\ Truthy(c.lon) /\ _is_weather_stale(state, clock)
        THEN "weather"
        ELSE IF state.observation.symptoms # <<>> /\ _is_web_stale(state, clock)
        THEN "web"
        ELSE "advice"

_route(state, clock) ==
    LET c == state.context
    IN  IF ~(Truthy(c.lat) /\ Truthy(c.lon)) /\ ~NonBlank(c.location_text)
        THEN "ask"
        ELSE IF ~NonBlank(c.crop) THEN "ask"
        ELSE IF c.stage = "unknown" THEN "ask"
        ELSE IF Truthy(c.lat) /\ Truthy(c.lon) /\ _is_weather_stale(state, clock)
        THEN "weather"
        ELSE IF state.observation.symptoms # <<>> /\ _is_web_stale(state, clock)
        THEN "web"
        ELSE "advice"

ASK_LOCATION == <<"To guide you accurately, share your location">>
ASK_CROP == <<"Which crop are you growing?">>
ASK_STAGE == <<"Which crop stage are you in?">>
ASK_SYMPTOMS == <<"Can you share 1-2 clear symptoms?">>
ASK_CHANGES == <<"Share any recent changes">>

\* _ask_message_for_missing asking for the crop before the location.
_ask_message_crop_first(state) ==
    LET c == state.context
    IN  IF ~NonBlank(c.crop) THEN ASK_CROP
        ELSE IF (~Truthy(c.lat) \/ ~Truthy(c.lon)) /\ ~NonBlank(c.location_text)
        THEN ASK_LOCATION
        ELSE IF c.stage = "unknown" THEN ASK_STAGE
        ELSE IF state.observation.symptoms # <<>> /\ state.web = None
        THEN ASK_SYMPTOMS
        ELSE ASK_CHANGES

_ask_message_for_missing(state) ==
    LET c == state.context
    IN  IF (~Truthy(c.lat) \/ ~Truthy(c.lon)) /\ ~NonBlank(c.location_text)
        THEN ASK_LOCATION
        ELSE IF ~NonBlank(c.crop) THEN ASK_CROP
        ELSE IF c.stage = "unknown" THEN ASK_STAGE
        ELSE IF state.observation.symptoms # <<>> /\ state.web = None
        THEN ASK_SYMPTOMS
        ELSE ASK_CHANGES

-----------------------------------------------------------------------------
(* Tool adapters (tools.py).                                               *)

\* float() of a number token, in whole degrees.
NumValue(t) ==
    CASE t = "0" -> 0 [] t = "5" -> 5 [] t = "19" -> 19
      [] t = "72" -> 72 [] t = "95" -> 95 [] t = "200" -> 200
      [] t = "-95" -> 0 - 95 [] t = "-200" -> 0 - 200

\* _LAT_LON_RE at position i: "lat X lon Y" or "lat X, lon Y", else "X,Y".
LatLonAt(text, i) ==
    IF /\ i + 3 <= Len(text) /\ Fold(text[i]) = "lat"
       /\ text[i + 1] \in NUMBERS /\ Fold(text[i + 2]) = "lon"
       /\ text[i + 3] \in NUMBERS
    THEN Some(<<NumValue(text[i + 1]), NumValue(text[i + 3])>>)
    ELSE IF /\ i + 4 <= Len(text) /\ Fold(text[i]) = "lat"
            /\ text[i + 1] \in NUMBERS /\ text[i + 2] = ","
            /\ Fold(text[i + 3]) = "lon" /\ text[i + 4] \in NUMBERS
    THEN Some(<<NumValue(text[i + 1]), NumValue(text[i + 4])>>)
    ELSE IF /\ i + 2 <= Len(text) /\ text[i] \in NUMBERS
            /\ text[i + 1] = "," /\ text[i + 2] \in NUMBERS
    THEN Some(<<NumValue(text[i]), NumValue(text[i + 2])>>)
    ELSE None

\* extract_lat_lon testing the range of the latitude only.
extract_lat_lon_without_lon_range(text) ==
    LET hits == {i \in 1..Len(text) : LatLonAt(text, i) # None}
    IN  IF hits = {} THEN <<None, None>>
        ELSE LET first == CHOOSE i \in hits : \A j \in hits : i <= j
                 m == LatLonAt(text, first)[1]
             IN  IF m[1] >= -90 /\ m[1] <= 90
                 THEN <<Some(m[1]), Some(m[2])>>
                 ELSE <<None, None>>

\* extract_lat_lon: the first match, discarded when out of range.
\* The result is <<lat, lon>> as Optional values.
extract_lat_lon(text) ==
    LET hits == {i \in 1..Len(text) : LatLonAt(text, i) # None}
    IN  IF hits = {} THEN <<None, None>>
        ELSE LET first == CHOOSE i \in hits : \A j \in hits : i <= j
                 m == LatLonAt(text, first)[1]
             IN  IF m[1] >= -90 /\ m[1] <= 90 /\ m[2] >= -180 /\ m[2] <= 180
                 THEN <<Some(m[1]), Some(m[2])>>
                 ELSE <<None, None>>

\* stop_after_attempt(3)
HTTP_ATTEMPTS == 3

\* What one HTTP attempt can do.  "timeout" (httpx.TimeoutException) and
\* "transport_error" (httpx.TransportError) are the retried kinds.
RETRIED == {"timeout", "transport_error"}
ATTEMPT_OUTCOMES ==
    RETRIED \union {"status_error", "other_http_error", "bad_json", "json"}

\* The attempt histories one call can see: attempts after the decisive one
\* are "unused".
HttpPlans ==
    {p \in [1..HTTP_ATTEMPTS -> ATTEMPT_OUTCOMES \union {"unused"}] :
        /\ p[1] # "unused"
        /\ \A k \in 2..HTTP_ATTEMPTS :
              (p[k] # "unused") <=> (p[k - 1] \in RETRIED)}

\* The retry loop retrying an HTTP error status as well.
RECURSIVE HttpAttempt_retrying_status(_, _)
HttpAttempt_retrying_status(plan, k) ==
    LET o == plan[k]
    IN  IF o \in RETRIED \union {"status_error"}
        THEN IF k >= HTTP_ATTEMPTS
             THEN [kind |-> "RetryError", attempts |-> k]
             ELSE HttpAttempt_retrying_status(plan, k + 1)
        ELSE [kind |-> CASE o = "other_http_error" -> "HTTPError"
                         [] o = "bad_json" -> "JSONDecodeError"
                         [] OTHER -> "value",
              attempts |-> k]

\* _http_get_json / _http_post_json under tenacity's @retry: a retried
\* exception on the last attempt leaves as tenacity.RetryError (reraise is
\* not set); any other exception leaves as it is.
RECURSIVE HttpAttempt(_, _)
HttpAttempt(plan, k) ==
    LET o == plan[k]
    IN  IF o \in RETRIED
        THEN IF k >= HTTP_ATTEMPTS
             THEN [kind |-> "RetryError", attempts |-> k]
             ELSE HttpAttempt(plan, k + 1)
        ELSE [kind |-> CASE o = "status_error" -> "HTTPStatusError"
                         [] o = "other_http_error" -> "HTTPError"
                         [] o = "bad_json" -> "JSONDecodeError"
                         [] OTHER -> "value",
              attempts |-> k]

_http_get_json(plan) == HttpAttempt(plan, 1)

_http_post_json(plan) == HttpAttempt(plan, 1)

\* except httpx.HTTPStatusError / except httpx.HTTPError -> ToolError;
\* every other exception propagates.
RaisedBy(res) ==
    CASE res.kind = "HTTPStatusError" -> "ToolError"
      [] res.kind = "HTTPError" -> "ToolError"
      [] res.kind = "value" -> "none"
      [] OTHER -> res.kind

\* fetch_weather_onecall.  body is the decoded JSON of a 200 response.
fetch_weather_onecall(plan, body, clock) ==
    LET res == _http_get_json(plan)
    IN  IF RaisedBy(res) # "none"
        THEN [raised |-> RaisedBy(res), value |-> None]
        ELSE IF body.kind # "dict"
        THEN [raised |-> "ToolError", value |-> None]
        ELSE [raised |-> "none",
              value |-> Some([fetched_at_utc |-> IsoFormat(clock),
                              alerts |-> Take(body.alerts, 3)])]

\* tavily_search.
tavily_search(plan, body, query, clock) ==
    IF StrStrip(query) = <<>>
    THEN [raised |-> "ToolError", value |-> None]
    ELSE LET res == _http_post_json(plan)
         IN  IF RaisedBy(res) # "none"
             THEN [raised |-> RaisedBy(res), value |-> None]
             ELSE IF body.kind # "dict"
             THEN [raised |-> "ToolError", value |-> None]
             ELSE [raised |-> "none",
                   value |-> Some([fetched_at_utc |-> IsoFormat(clock),
                                   query |-> StrStrip(query)])]

\* geocode_place_openweather: value is <<lat, lon, resolved>>.
geocode_place_openweather(plan, body, place) ==
    IF StrStrip(place) = <<>>
    THEN [raised |-> "none", value |-> <<None, None, None>>]
    ELSE LET res == _http_get_json(plan)
         IN  IF RaisedBy(res) # "none"
             THEN [raised |-> RaisedBy(res), value |-> <<None, None, None>>]
             ELSE IF body.kind # "place"
             THEN [raised |-> "none", value |-> <<None, None, None>>]
             ELSE [raised |-> "none",
                   value |-> <<Some(body.lat), Some(body.lon), body.name>>]

-----------------------------------------------------------------------------
(* Language-model adapter.                                                 *)

\* max_tries=2 of both _llm_json calls
LLM_TRIES == 2

\* One try: the API call fails, the text holds no JSON, the JSON is not an
\* object, or it is an object.
LLM_FAILURES == {"api_error", "no_json", "not_object"}

LlmPlans ==
    {p \in [1..LLM_TRIES -> LLM_FAILURES \union {"object", "unused"}] :
        /\ p[1] # "unused"
        /\ \A k \in 2..LLM_TRIES :
              (p[k] # "unused") <=> (p[k - 1] \in LLM_FAILURES)}

\* _llm_json: the first try that yields an object returns it; after
\* max_tries failures RuntimeError is raised.
RECURSIVE LlmTry(_, _)
LlmTry(plan, attempt) ==
    IF attempt > LLM_TRIES THEN [raised |-> "RuntimeError", tries |-> LLM_TRIES]
    ELSE IF plan[attempt] = "object" THEN [raised |-> "none", tries |-> attempt]
    ELSE LlmTry(plan, attempt + 1)

_llm_json(plan) == LlmTry(plan, 1)

-----------------------------------------------------------------------------
(* Inputs of the turn loop.                                                *)

\* Messages a farmer sends (already stripped by on_text).
UserTexts ==
    {<<"pune">>,
     <<"19", ",", "72">>,
     <<LONG_TEXT, "0", ",", "72">>}

\* Attempt histories of one HTTP call that the turn loop explores: one per
\* way _http_get_json can end.
TurnHttpPlans ==
    {<<"json", "unused", "unused">>,
     <<"timeout", "json", "unused">>,
     <<"status_error", "unused", "unused">>,
     <<"transport_error", "other_http_error", "unused">>,
     <<"bad_json", "unused", "unused">>,
     <<"timeout", "transport_error", "timeout">>}

\* Try histories of one _llm_json call that the turn loop explores.
TurnLlmPlans ==
    {<<"object", "unused">>, <<"no_json", "object">>,
     <<"api_error", "not_object">>}

\* Objects the extractor model returns; "valid" is whether
\* IntakeExtraction.model_validate accepts the object.
Extractions ==
    {[valid |-> TRUE, upd |-> IntakeExtraction],
     [valid |-> FALSE, upd |-> IntakeExtraction],
     [valid |-> TRUE,
      upd |-> [IntakeExtraction EXCEPT !.crop = Some(<<" ", "Wheat">>),
                                       !.stage = Some(<<"Vegetative">>)]],
     [valid |-> TRUE,
      upd |-> [IntakeExtraction EXCEPT !.crop = Some(<<"wheat">>),
                                       !.stage = Some(<<"vegetative">>),
                                       !.symptoms = <<<<"Yellowing">>>>,
                                       !.urgency = Some(<<"HIGH">>)]],
     [valid |-> TRUE,
      upd |-> [IntakeExtraction EXCEPT !.crop = Some(<<" ">>),
                                       !.stage = Some(<<"blooming">>),
                                       !.symptoms = <<<<"yellowing">>>>,
                                       !.urgency = Some(<<"low">>)]]}

\* Bodies of a 200 response of the One Call API and of Tavily.
WeatherBodies ==
    {[kind |-> "dict", alerts |-> <<>>],
     [kind |-> "dict", alerts |-> <<"Storm">>],
     [kind |-> "other", alerts |-> <<>>]}

WebBodies == {[kind |-> "dict"], [kind |-> "other"]}

\* Bodies of a 200 response of the geocoding API.
GeoBodies ==
    {[kind |-> "place", lat |-> 18, lon |-> 73, name |-> Some(<<"Pune">>)],
     [kind |-> "empty", lat |-> 0, lon |-> 0, name |-> None]}

LINE_SAFE == <<"irrigate", "early">>
LINE_DOSE == <<"apply", "5", "ML">>
LINE_PER == <<"spray", "per", "litre">>
LINE_MIX == <<"Mix", "neem">>
LINE_NUM_END == <<"apply", "5">>
LINE_UNIT_START == <<"kg", "urea">>
LINE_GLUED == <<"5ml", "residue">>
HEAD_SAFE == <<"crop", "care", "plan">>
HEAD_DOSE == <<"dose", "guide">>

\* An Advisory object as the synthesizer model returns it.
RawAdvisory(h, acts, watch, conf, notes, review) ==
    [headline |-> h, stage |-> "vegetative", actions_now |-> acts,
     watch_out_for |-> watch, next_questions |-> <<>>,
     rationale_brief |-> <<"because">>, confidence |-> conf,
     safety_notes |-> notes, needs_human_review |-> review]

\* Objects the synthesizer model returns in the turn loop.
SynthOutputs ==
    {RawAdvisory(HEAD_SAFE, <<LINE_SAFE>>, <<>>, "high", <<>>, FALSE),
     RawAdvisory(HEAD_SAFE, <<LINE_DOSE, LINE_PER>>, <<LINE_GLUED>>,
                 "medium", <<>>, FALSE),
     RawAdvisory(HEAD_DOSE, <<LINE_SAFE, <<" ">>>>, <<>>, "high", <<>>, FALSE),
     RawAdvisory(<<"ok">>, <<LINE_SAFE>>, <<>>, "high", <<>>, FALSE)}

\* Hours the clock can advance by between two turns.
TickHours == {6, 7, 25}

\* The adapters the nodes call.
TOOLS == {"extract", "geocode", "weather", "web", "synthesize"}

\* calls counts up to CallCap; CallCap stands for "CallCap times or more".
Called(n, tool) ==
    [n EXCEPT ![tool] = IF @ < CallCap THEN @ + 1 ELSE @]

-----------------------------------------------------------------------------
(* The turn loop: on_text, run_turn and the nodes of the compiled graph.   *)

\* for m in reversed(s.messages): if m.get("role") == "user": ...
LastUser(messages) ==
    LET users == {i \in 1..Len(messages) : messages[i].role = "user"}
    IN  IF users = {} THEN <<>>
        ELSE messages[CHOOSE i \in users : \A j \in users : j <= i].content

\* Steps 1 and 2 of intake_node assigning the extracted pair whatever it
\* is, also when the message holds no coordinates.
DeterministicIntake_overwriting(ctx, last_user) ==
    LET ll == extract_lat_lon(last_user)
        c1 == [ctx EXCEPT !.lat = ll[1], !.lon = ll[2]]
    IN  IF ~TruthyStr(c1.location_text) /\ last_user # <<>>
           /\ CharLen(last_user) <= 120
        THEN [c1 EXCEPT !.location_text = Some(StrStrip(last_user))]
        ELSE c1

\* Step 1 of intake_node alone: no message is adopted as location text.
DeterministicIntake_without_adoption(ctx, last_user) ==
    LET ll == extract_lat_lon(last_user)
    IN  IF ll[1] # None /\ ll[2] # None
        THEN [ctx EXCEPT !.lat = IF Truthy(@) THEN @ ELSE ll[1],
                         !.lon = IF Truthy(@) THEN @ ELSE ll[2]]
        ELSE ctx

\* Steps 1 and 2 of intake_node: the deterministic coordinate extraction
\* and the adoption of a short message as the location text.
DeterministicIntake(ctx, last_user) ==
    LET ll == extract_lat_lon(last_user)
        c1 == IF ll[1] # None /\ ll[2] # None
              THEN [ctx EXCEPT !.lat = IF Truthy(@) THEN @ ELSE ll[1],
                               !.lon = IF Truthy(@) THEN @ ELSE ll[2]]
              ELSE ctx
    IN  IF ~TruthyStr(c1.location_text) /\ last_user # <<>>
           /\ CharLen(last_user) <= 120
        THEN [c1 EXCEPT !.location_text = Some(StrStrip(last_user))]
        ELSE c1

\* The value of a local variable that is assigned once: the element of a
\* singleton set.
TheOnly(S) == CHOOSE x \in S : TRUE

\* intake_node returning the state as it was when the extractor fails.
intake_node_dropping_updates(state, plan, data) ==
    TheOnly({
        LET ctx == DeterministicIntake(state.context, last_user)
            llm == _llm_json(plan)
        IN  IF llm.raised # "none" \/ ~data.valid
            THEN [state EXCEPT !.last_node = Some("intake")]
            ELSE [state EXCEPT
                    !.context = _merge_context(ctx, data.upd),
                    !.observation = _merge_observation(@, data.upd),
                    !.last_node = Some("intake")]
        : last_user \in {LastUser(state.messages)}})

\* The state intake_node leaves, given what the extractor call did.
\* last_user is the local variable of intake_node, computed once.
intake_node(state, plan, data) ==
    TheOnly({
        LET ctx == DeterministicIntake(state.context, last_user)
            llm == _llm_json(plan)
        IN  IF llm.raised # "none" \/ ~data.valid
            THEN [state EXCEPT !.context = ctx, !.last_node = Some("intake")]
            ELSE [state EXCEPT
                    !.context = _merge_context(ctx, data.upd),
                    !.observation = _merge_observation(@, data.upd),
                    !.last_node = Some("intake")]
        : last_user \in {LastUser(state.messages)}})

\* ask_node returning without the question among the messages.
ask_node_without_reply(state) ==
    [state EXCEPT !.last_node = Some("ask"), !.advisory = None]

\* ask_node leaving the Advisory of the state in place.
ask_node_keeping_advisory(state) ==
    LET s1 == [state EXCEPT !.last_node = Some("ask")]
    IN  compact_messages(add_assistant(s1, _ask_message_for_missing(s1)))

ask_node(state) ==
    LET s1 == [state EXCEPT !.last_node = Some("ask")]
        s2 == compact_messages(add_assistant(s1, _ask_message_for_missing(s1)))
    IN  [s2 EXCEPT !.advisory = None]

\* The web query: crop, stage, fixed terms, up to 3 symptoms, location.
WebQuery(state) ==
    LET crop == IF TruthyStr(state.context.crop)
                THEN state.context.crop[1] ELSE <<"crop">>
        loc == IF NonBlank(state.context.location_text)
               THEN StrStrip(state.context.location_text[1]) ELSE <<>>
        symptoms == Join(Take(state.observation.symptoms, 3))
    IN  crop \o <<state.context.stage, "farming", "best practices">>
        \o (IF symptoms # <<>> THEN <<"symptoms">> \o symptoms ELSE <<>>)
        \o (IF loc # <<>> THEN <<"in">> \o loc ELSE <<>>)

FALLBACK_MESSAGE == <<"I could not generate a reliable plan from the current details.">>

\* summary_lines of advice_node, joined.
Summary(adv2) ==
    adv2.headline
    \o (IF adv2.actions_now # <<>>
        THEN <<"Actions:">> \o Join(Take(adv2.actions_now, 4)) ELSE <<>>)
    \o (IF adv2.watch_out_for # <<>>
        THEN <<"Watch:">> \o Join(Take(adv2.watch_out_for, 3)) ELSE <<>>)
    \o (IF adv2.next_questions # <<>>
        THEN <<"Next:">> \o Join(Take(adv2.next_questions, 2)) ELSE <<>>)
    \o (IF adv2.needs_human_review
        THEN <<"Note: Recommend local expert review.">> ELSE <<>>)

\* advice_node whose fallback leaves the stored Advisory in the state.
advice_node_keeping_advisory(state, plan, data) ==
    LET s1 == [state EXCEPT !.last_node = Some("advice")]
        llm == _llm_json(plan)
        adv == IF llm.raised # "none" THEN None ELSE safe_parse_advisory(data)
    IN  IF adv = None
        THEN add_assistant(s1, FALLBACK_MESSAGE)
        ELSE LET g == _guardrails(adv[1], s1)
                 adv2 == _sanitize_advisory(adv[1], g)
             IN  [compact_messages(add_assistant(s1, Summary(adv2)))
                    EXCEPT !.advisory = Some(adv2)]

\* The state advice_node leaves, given what the synthesizer call did.
advice_node(state, plan, data) ==
    LET s1 == [state EXCEPT !.last_node = Some("advice")]
        llm == _llm_json(plan)
        adv == IF llm.raised # "none" THEN None ELSE safe_parse_advisory(data)
    IN  IF adv = None
        THEN [add_assistant(s1, FALLBACK_MESSAGE) EXCEPT !.advisory = None]
        ELSE LET g == _guardrails(adv[1], s1)
                 adv2 == _sanitize_advisory(adv[1], g)
             IN  [compact_messages(add_assistant(s1, Summary(adv2)))
                    EXCEPT !.advisory = Some(adv2)]

\* The variables of a specification while another specification runs.
Idle ==
    [mrg |-> [pc |-> "off", turn |-> 0,
              old_ctx |-> FarmerContext, old_obs |-> Observation,
              upd |-> IntakeExtraction,
              ctx |-> FarmerContext, obs |-> Observation],
     frs |-> [pc |-> "off", kind |-> "weather", snapshot |-> None,
              clock |-> 0, exc |-> "none", stale |-> None],
     prs |-> [pc |-> "off", data |-> None, adv |-> None],
     sto |-> [pc |-> "off", store |-> <<>>, state |-> GraphState,
              asked |-> "chat1", was |-> None, loaded |-> GraphState]]

IdleTurn ==
    /\ stored = GraphState
    /\ s = GraphState
    /\ pc = "off"
    /\ exc = "none"
    /\ calls = [tool \in TOOLS |-> 0]
    /\ now = 0
    /\ ticks = 0
    /\ ran = {}

IdleGuard ==
    /\ gpc = "off"
    /\ gadv = RawAdvisory(HEAD_SAFE, <<>>, <<>>, "medium", <<>>, FALSE)
    /\ gstate = [observation |-> Observation, weather |-> None]
    /\ guard = [ok |-> TRUE, reasons |-> <<>>, needs_human_review |-> FALSE]
    /\ gout = RawAdvisory(HEAD_SAFE, <<>>, <<>>, "medium", <<>>, FALSE)

Init ==
    /\ stored = GraphState
    /\ s = GraphState
    /\ pc = "idle"
    /\ exc = "none"
    /\ calls = [tool \in TOOLS |-> 0]
    /\ now = 0
    /\ ticks = 0
    /\ ran = {}
    /\ gpc = "off"
    /\ gadv = RawAdvisory(HEAD_SAFE, <<>>, <<>>, "medium", <<>>, FALSE)
    /\ gstate = [observation |-> Observation, weather |-> None]
    /\ guard = [ok |-> TRUE, reasons |-> <<>>, needs_human_review |-> FALSE]
    /\ gout = RawAdvisory(HEAD_SAFE, <<>>, <<>>, "medium", <<>>, FALSE)
    /\ mrg = Idle.mrg
    /\ frs = Idle.frs
    /\ prs = Idle.prs
    /\ sto = Idle.sto

\* on_text up to the graph's entry point: store.load, then run_turn's
\* add_user, turn_count += 1, compact_messages.
OnText ==
    /\ pc = "idle"
    /\ \/ stored.turn_count < MaxTurns
       \/ /\ stored.turn_count >= HistTurns - 1
          /\ stored.turn_count < HistTurns + 1
    /\ \E user_text \in UserTexts :
          s' = compact_messages(
                 [add_user(stored, user_text) EXCEPT !.turn_count = @ + 1])
    /\ pc' = "intake"
    /\ exc' = "none"
    /\ calls' = [tool \in TOOLS |-> 0]
    /\ ran' = {}
    /\ UNCHANGED <<stored, now, ticks>>
    /\ UNCHANGED <<guardVars, pureVars>>

IntakeNode ==
    /\ pc = "intake"
    /\ \E plan \in TurnLlmPlans, data \in Extractions :
          /\ s' = intake_node(s, plan, data)
          /\ ran' = ran \cup {"intake"} \cup
                       IF _llm_json(plan).raised # "none" \/ ~data.valid
                       THEN {"extract_failed"} ELSE {}
    /\ pc' = "plan"
    /\ calls' = Called(calls, "extract")
    /\ UNCHANGED <<stored, exc, now, ticks>>
    /\ UNCHANGED <<guardVars, pureVars>>

\* plan_node, then the conditional edge _route.
PlanNode ==
    /\ pc = "plan"
    /\ s' = [s EXCEPT !.last_node = Some("plan")]
    /\ pc' = _route(s', now)
    /\ UNCHANGED <<stored, exc, calls, now, ticks, ran>>
    /\ UNCHANGED <<guardVars, pureVars>>

AskNode ==
    /\ pc = "ask"
    /\ s' = ask_node(s)
    /\ pc' = "end"
    /\ ran' = ran \cup {"ask"}
    /\ UNCHANGED <<stored, exc, calls, now, ticks>>
    /\ UNCHANGED <<guardVars, pureVars>>

\* The first half of weather_node geocoding the location text also when
\* the context has coordinates.
WeatherGeocode_despite_coordinates(c, plan, body) ==
    IF TruthyStr(c.location_text)
    THEN LET geo == geocode_place_openweather(plan, body, c.location_text[1])
         IN  [context |->
                IF geo.raised = "none" /\ geo.value[1] # None
                   /\ geo.value[2] # None
                THEN [c EXCEPT !.lat = geo.value[1], !.lon = geo.value[2]]
                ELSE c,
              raised |-> IF geo.raised = "ToolError" THEN "none" ELSE geo.raised,
              called |-> TRUE]
    ELSE [context |-> c, raised |-> "none", called |-> FALSE]

\* The first half of weather_node: geocode the location text when the
\* context has no (truthy) coordinates.  The result is the context the
\* node goes on with, the exception that escaped ("none" when none, a
\* ToolError being caught in the node) and whether geocoding was called.
WeatherGeocode(c, plan, body) ==
    IF ~(Truthy(c.lat) /\ Truthy(c.lon)) /\ TruthyStr(c.location_text)
    THEN LET geo == geocode_place_openweather(plan, body, c.location_text[1])
         IN  [context |->
                IF geo.raised = "none" /\ geo.value[1] # None
                   /\ geo.value[2] # None
                THEN [c EXCEPT !.lat = geo.value[1], !.lon = geo.value[2]]
                ELSE c,
              raised |-> IF geo.raised = "ToolError" THEN "none" ELSE geo.raised,
              called |-> TRUE]
    ELSE [context |-> c, raised |-> "none", called |-> FALSE]

\* weather_node: the state it returns, or the exception that escapes it.
weather_node(state, gplan, gbody, plan, body, clock) ==
    LET geo == WeatherGeocode(state.context, gplan, gbody)
        c2 == geo.context
        w == fetch_weather_onecall(plan, body, clock)
    IN  IF geo.raised # "none"
        THEN [raised |-> geo.raised, state |-> state,
              geocoded |-> geo.called, fetched |-> FALSE]
        ELSE IF ~(Truthy(c2.lat) /\ Truthy(c2.lon))
        THEN [raised |-> "none",
              state |-> [state EXCEPT !.context = c2, !.weather = None,
                                      !.last_node = Some("weather")],
              geocoded |-> geo.called, fetched |-> FALSE]
        ELSE IF w.raised = "none"
        THEN [raised |-> "none",
              state |-> [state EXCEPT !.weather = w.value, !.context = c2,
                                      !.last_node = Some("weather")],
              geocoded |-> geo.called, fetched |-> TRUE]
        ELSE IF w.raised = "ToolError"
        THEN [raised |-> "none",
              state |-> [state EXCEPT !.context = c2,
                                      !.last_node = Some("weather")],
              geocoded |-> geo.called, fetched |-> TRUE]
        ELSE [raised |-> w.raised, state |-> state,
              geocoded |-> geo.called, fetched |-> TRUE]

\* web_node: the state it returns, or the exception that escapes it.
web_node(state, plan, body, clock) ==
    LET r == tavily_search(plan, body, WebQuery(state), clock)
    IN  IF r.raised = "none"
        THEN [raised |-> "none",
              state |-> [state EXCEPT !.web = r.value,
                                      !.last_node = Some("web")]]
        ELSE IF r.raised = "ToolError"
        THEN [raised |-> "none",
              state |-> [state EXCEPT !.last_node = Some("web")]]
        ELSE [raised |-> r.raised, state |-> state]

\* The geocoding attempt histories that matter to weather_node on context c:
\* geocoding is called only when c has no (truthy) coordinates.
GeocodePlans(c) ==
    IF Truthy(c.lat) /\ Truthy(c.lon)
    THEN {<<"json", "unused", "unused">>}
    ELSE TurnHttpPlans

WeatherNode ==
    /\ pc = "weather"
    /\ \E gplan \in GeocodePlans(s.context), gbody \in GeoBodies,
          plan \in TurnHttpPlans, body \in WeatherBodies :
          LET r == weather_node(s, gplan, gbody, plan, body, now)
              n1 == IF r.geocoded THEN Called(calls, "geocode") ELSE calls
          IN  /\ calls' = IF r.fetched THEN Called(n1, "weather") ELSE n1
              /\ s' = r.state
              /\ exc' = r.raised
              /\ pc' = IF r.raised = "none" THEN "plan" ELSE "raised"
              /\ ran' = ran \cup {"weather"} \cup
                           IF r.raised = "none" /\ r.fetched
                              /\ fetch_weather_onecall(plan, body, now).raised
                                    = "none"
                           THEN {} ELSE {"failed"}
    /\ UNCHANGED <<stored, now, ticks>>
    /\ UNCHANGED <<guardVars, pureVars>>

WebNode ==
    /\ pc = "web"
    /\ \E plan \in TurnHttpPlans, body \in WebBodies :
          LET r == web_node(s, plan, body, now)
          IN  /\ s' = r.state
              /\ exc' = r.raised
              /\ pc' = IF r.raised = "none" THEN "plan" ELSE "raised"
              /\ ran' = ran \cup {"web"} \cup
                           IF tavily_search(plan, body, WebQuery(s), now).raised
                                = "none"
                           THEN {} ELSE {"failed"}
    /\ calls' = Called(calls, "web")
    /\ UNCHANGED <<stored, now, ticks>>
    /\ UNCHANGED <<guardVars, pureVars>>

AdviceNode ==
    /\ pc = "advice"
    /\ \E plan \in TurnLlmPlans, data \in SynthOutputs :
          /\ s' = advice_node(s, plan, data)
          /\ ran' = ran \cup {"advice"} \cup
                       IF \/ _llm_json(plan).raised # "none"
                          \/ safe_parse_advisory(data) = None
                       THEN {"synth_failed"} ELSE {}
    /\ pc' = "end"
    /\ calls' = Called(calls, "synthesize")
    /\ UNCHANGED <<stored, exc, now, ticks>>
    /\ UNCHANGED <<guardVars, pureVars>>

\* run_turn returned: on_text saves the new state and replies; the
\* handler's locals are gone.
TurnReturns ==
    /\ pc = "end"
    /\ stored' = s
    /\ pc' = "idle"
    /\ calls' = [tool \in TOOLS |-> 0]
    /\ ran' = {}
    /\ UNCHANGED <<s, exc, now, ticks>>
    /\ UNCHANGED <<guardVars, pureVars>>

\* on_text saving the state of the failed turn as far as it got.
TurnFails_saving_partial ==
    /\ pc = "raised"
    /\ pc' = "idle"
    /\ stored' = s
    /\ s' = s
    /\ exc' = "none"
    /\ calls' = [tool \in TOOLS |-> 0]
    /\ ran' = {}
    /\ UNCHANGED <<now, ticks>>
    /\ UNCHANGED <<guardVars, pureVars>>

\* run_turn raised: on_text's `except Exception` replies; nothing is saved
\* and the handler's locals are gone.
TurnFails ==
    /\ pc = "raised"
    /\ pc' = "idle"
    /\ s' = stored
    /\ exc' = "none"
    /\ calls' = [tool \in TOOLS |-> 0]
    /\ ran' = {}
    /\ UNCHANGED <<stored, now, ticks>>
    /\ UNCHANGED <<guardVars, pureVars>>

\* Time passes between two turns.
Tick ==
    /\ pc = "idle"
    /\ ticks < MaxTicks
    /\ \E d \in TickHours : now' = now + d
    /\ ticks' = ticks + 1
    /\ UNCHANGED <<stored, s, pc, exc, calls, ran>>
    /\ UNCHANGED <<guardVars, pureVars>>

\* One step of a running turn.
TurnStep ==
    \/ IntakeNode \/ PlanNode \/ AskNode \/ WeatherNode \/ WebNode
    \/ AdviceNode \/ TurnReturns \/ TurnFails

Next ==
    \/ OnText \/ IntakeNode \/ PlanNode \/ AskNode \/ WeatherNode \/ WebNode
    \/ AdviceNode \/ TurnReturns \/ TurnFails \/ Tick

Spec == Init /\ [][Next]_vars

-----------------------------------------------------------------------------
(* GuardSpec: _guardrails and _sanitize_advisory applied to one validated  *)
(* Advisory, for every Advisory and state drawn from the sets below.       *)

\* All sequences over S of length at most n.
RECURSIVE SeqsUpTo(_, _)
SeqsUpTo(S, n) ==
    IF n = 0 THEN {<<>>}
    ELSE LET shorter == SeqsUpTo(S, n - 1)
         IN  shorter \union {Append(q, x) : q \in shorter, x \in S}

GuardHeadlines == {HEAD_SAFE, HEAD_DOSE}
GuardActionLines == {LINE_SAFE, LINE_DOSE, LINE_PER, LINE_MIX, LINE_NUM_END}
GuardWatchLists == {<<>>, <<LINE_UNIT_START>>, <<LINE_GLUED>>}

\* k safety notes supplied by the synthesizer.
Notes(k) == [i \in 1..k |-> <<"wear", "gloves">>]
GuardNoteCounts == {0} \union {k \in (MaxNotes - 2)..MaxNotes : k >= 0}

GuardAdvisories ==
    {RawAdvisory(h, acts, watch, cr[1], Notes(k), cr[2]) :
        h \in GuardHeadlines,
        acts \in SeqsUpTo(GuardActionLines, MaxActions),
        watch \in GuardWatchLists,
        cr \in {<<"high", FALSE>>, <<"low", FALSE>>, <<"medium", TRUE>>},
        k \in GuardNoteCounts}

GuardStates ==
    {[observation |-> [Observation EXCEPT !.urgency = u], weather |-> w] :
        u \in {"low", "high"},
        w \in {None,
               Some([fetched_at_utc |-> IsoFormat(0), alerts |-> <<>>]),
               Some([fetched_at_utc |-> IsoFormat(0), alerts |-> <<"Storm">>])}}

GuardInit ==
    /\ stored = GraphState
    /\ s = GraphState
    /\ pc = "off"
    /\ exc = "none"
    /\ calls = [tool \in TOOLS |-> 0]
    /\ now = 0
    /\ ticks = 0
    /\ ran = {}
    /\ gpc = "input"
    /\ gadv \in GuardAdvisories
    /\ gstate \in GuardStates
    /\ guard = [ok |-> TRUE, reasons |-> <<>>, needs_human_review |-> FALSE]
    /\ gout = gadv
    /\ mrg = Idle.mrg
    /\ frs = Idle.frs
    /\ prs = Idle.prs
    /\ sto = Idle.sto

\* guard = _guardrails(adv, s)
Evaluate ==
    /\ gpc = "input"
    /\ guard' = _guardrails(gadv, gstate)
    /\ gpc' = "evaluated"
    /\ UNCHANGED <<gadv, gstate, gout>>
    /\ UNCHANGED <<turnVars, pureVars>>

\* adv2 = _sanitize_advisory(adv, guard)
Sanitize ==
    /\ gpc = "evaluated"
    /\ gout' = _sanitize_advisory(gadv, guard)
    /\ gpc' = "sanitized"
    /\ UNCHANGED <<gadv, gstate, guard>>
    /\ UNCHANGED <<turnVars, pureVars>>

GuardNext == Evaluate \/ Sanitize

GuardSpec == GuardInit /\ [][GuardNext]_vars

\* The scheduler runs a started turn on: every enabled step of the running
\* graph is eventually taken.  Messages and the clock are the environment.
FairSpec == Spec /\ WF_vars(TurnStep)

-----------------------------------------------------------------------------
(* MergeSpec: _merge_context and _merge_observation applied, as in         *)
(* intake_node, to a stored context and observation and one update, and    *)
(* then to the result and the update of a later turn.                      *)

\* How the extractor fills an Optional[str] field: absent, empty, blank, or
\* a text with spaces around it.
Padded(text) == <<" ">> \o text \o <<" ">>

UpdText(kind, text) ==
    CASE kind = "absent" -> None
      [] kind = "empty"  -> Some(<<>>)
      [] kind = "blank"  -> Some(<<" ", " ">>)
      [] OTHER           -> Some(Padded(text))

\* Updates of the later turns.
FollowUpUpdates ==
    {[IntakeExtraction EXCEPT !.urgency = Some(<<"low">>),
                              !.crop = Some(<<" ">>)],
     [IntakeExtraction EXCEPT !.urgency = Some(<<"medium">>),
                              !.symptoms = <<<<"yellowing">>, <<"mites">>>>,
                              !.pests_seen = <<<<"mites">>>>],
     [IntakeExtraction EXCEPT !.urgency = Some(Padded(<<"HIGH">>)),
                              !.stage = Some(<<"blooming">>)],
     [IntakeExtraction EXCEPT !.stage = Some(<<"harvest">>),
                              !.notes = Some(<<>>),
                              !.location_text = Some(<<"pune">>)]}

\* The inputs of the first merge: stored contexts (a new one, one with every
\* field set, one in between) against updates of the context fields, and
\* stored observations against updates of the observation fields.
MergeInputs ==
    LET MergeKinds == {"absent", "empty", "blank", "text"}
        StageUpdates ==
            {None, Some(<<>>), Some(<<" ">>), Some(Padded(<<"Vegetative">>)),
             Some(<<"flowering">>), Some(<<"unknown">>), Some(<<"blooming">>),
             Some(<<"pre", "sowing">>)}
        ContextUpdates ==
            {[IntakeExtraction EXCEPT
                !.crop = UpdText(k1, <<"Wheat">>),
                !.stage = st,
                !.location_text = UpdText(k2, <<"near", "pune">>),
                !.sowing_date = UpdText(k3, <<"june">>),
                !.irrigation = UpdText(k2, <<"drip">>),
                !.soil_type = UpdText(k3, <<"clay">>),
                !.notes = UpdText(k1, <<"hail">>)]
             : k1 \in MergeKinds, k2 \in MergeKinds, k3 \in MergeKinds,
               st \in StageUpdates}
        MergeContexts ==
            {FarmerContext,
             [FarmerContext EXCEPT !.crop = Some(<<"rice">>),
                                   !.stage = "flowering",
                                   !.lat = Some(18), !.lon = Some(73)],
             [crop |-> Some(<<"rice">>), stage |-> "flowering",
              location_text |-> Some(<<"nashik">>),
              lat |-> Some(18), lon |-> Some(73),
              sowing_date |-> Some(<<"may">>), irrigation |-> Some(<<"canal">>),
              soil_type |-> Some(<<"loam">>), notes |-> Some(<<"frost">>)]}
        MergeObservations ==
            {[symptoms |-> sy, pests_seen |-> pe, urgency |-> u]
             : sy \in {<<>>, <<<<"Yellowing">>>>,
                       <<<<"Yellowing">>, <<"spots">>>>},
               pe \in {<<>>, <<<<"aphids">>>>},
               u \in {"low", "medium", "high"}}
        ObservationUpdates ==
            {[IntakeExtraction EXCEPT !.symptoms = sy, !.pests_seen = pe,
                                      !.urgency = u]
             : sy \in {<<>>, <<<<"yellowing">>>>,
                       <<<<"wilting">>, <<"spots">>>>,
                       <<Padded(<<"spots">>), <<>>, <<" ">>, <<"wilting">>,
                         <<"Yellowing">>, <<"wilting">>>>},
               pe \in {<<>>, <<<<"aphids">>>>, <<<<"mites">>, <<"aphids">>>>},
               u \in {None, Some(<<>>), Some(<<" ">>), Some(<<"low">>),
                      Some(<<"medium">>), Some(<<"high">>),
                      Some(Padded(<<"HIGH">>)), Some(<<"urgent">>)}}
    IN  {[old_ctx |-> c, old_obs |-> Observation, upd |-> u]
         : c \in MergeContexts, u \in ContextUpdates}
        \cup {[old_ctx |-> FarmerContext, old_obs |-> o, upd |-> u]
              : o \in MergeObservations, u \in ObservationUpdates}

MergeInit ==
    /\ IdleTurn
    /\ IdleGuard
    /\ \E in \in MergeInputs :
          mrg = [pc |-> "input", turn |-> 1,
                 old_ctx |-> in.old_ctx, old_obs |-> in.old_obs,
                 upd |-> in.upd, ctx |-> in.old_ctx, obs |-> in.old_obs]
    /\ frs = Idle.frs
    /\ prs = Idle.prs
    /\ sto = Idle.sto

\* s.context = _merge_context(s.context, upd);
\* s.observation = _merge_observation(s.observation, upd)
IntakeMerge ==
    /\ mrg.pc = "input"
    /\ mrg' = [mrg EXCEPT !.pc = "merged",
                          !.ctx = _merge_context(mrg.old_ctx, mrg.upd),
                          !.obs = _merge_observation(mrg.old_obs, mrg.upd)]
    /\ UNCHANGED <<turnVars, guardVars, frs, prs, sto>>

\* The next turn's intake works on the merged state with a new update.
NextUpdate ==
    /\ mrg.pc = "merged"
    /\ mrg.turn < MaxMerges
    /\ \E upd \in FollowUpUpdates :
          mrg' = [mrg EXCEPT !.pc = "input", !.turn = @ + 1,
                             !.old_ctx = mrg.ctx, !.old_obs = mrg.obs,
                             !.upd = upd]
    /\ UNCHANGED <<turnVars, guardVars, frs, prs, sto>>

MergeNext == IntakeMerge \/ NextUpdate

MergeSpec == MergeInit /\ [][MergeNext]_vars

-----------------------------------------------------------------------------
(* FreshSpec: _is_weather_stale and _is_web_stale applied to one state at  *)
(* one time of the clock.                                                  *)

\* fetched_at_utc is a str: a timestamp with an offset, one without, or a
\* string that does not parse.
FreshInit ==
    /\ IdleTurn
    /\ IdleGuard
    /\ mrg = Idle.mrg
    /\ \E kind \in {"weather", "web"},
          snapshot \in {None} \cup
                       {Some([fetched_at_utc |-> ts])
                        : ts \in {IsoFormat(t) : t \in 0..MaxFetchHour}
                           \cup {IsoFormatNaive(t) : t \in 0..MaxFetchHour}
                           \cup {<<>>, <<"yesterday">>}},
          clock \in 0..(MaxFetchHour + WEB_MAX_AGE_HOURS + 1) :
          frs = [pc |-> "input", kind |-> kind, snapshot |-> snapshot,
                 clock |-> clock, exc |-> "none", stale |-> None]
    /\ prs = Idle.prs
    /\ sto = Idle.sto

\* stale = _is_weather_stale(state) or _is_web_stale(state) at _utc_now()
FreshCheck ==
    /\ frs.pc = "input"
    /\ frs' =
         IF StaleRaises(frs.snapshot)
         THEN [frs EXCEPT !.pc = "checked", !.exc = "TypeError"]
         ELSE [frs EXCEPT
                 !.pc = "checked",
                 !.stale =
                    IF frs.kind = "weather"
                    THEN Some(_is_weather_stale(
                             [GraphState EXCEPT !.weather = frs.snapshot],
                             frs.clock))
                    ELSE Some(_is_web_stale(
                             [GraphState EXCEPT !.web = frs.snapshot],
                             frs.clock))]
    /\ UNCHANGED <<turnVars, guardVars, mrg, prs, sto>>

FreshSpec == FreshInit /\ [][FreshCheck]_vars

-----------------------------------------------------------------------------
(* ParseSpec: safe_parse_advisory applied to one object of the synthesizer. *)

\* Objects whose lists are empty, at the cap of the field, or one above it;
\* a list holds plain lines, or padded, blank and empty lines in turn.
ParseInputs ==
    LET Lines(n, kind) ==
            [i \in 1..n |->
                IF kind = "plain" THEN LINE_SAFE
                ELSE CASE i % 3 = 1 -> Padded(LINE_SAFE)
                       [] i % 3 = 2 -> <<" ">>
                       [] OTHER     -> <<>>]
        Lists(cap) == {Lines(n, kind) : n \in {0, cap, cap + 1},
                                        kind \in {"plain", "mixed"}}
    IN  {[RawAdvisory(h, acts, watch, "medium", notes, FALSE)
            EXCEPT !.next_questions = qs]
         : h \in {HEAD_SAFE, <<"ok">>}, acts \in Lists(7), watch \in Lists(5),
           qs \in Lists(3), notes \in Lists(6)}

ParseInit ==
    /\ IdleTurn
    /\ IdleGuard
    /\ mrg = Idle.mrg
    /\ frs = Idle.frs
    /\ \E data \in ParseInputs : prs = [pc |-> "input", data |-> data,
                                        adv |-> None]
    /\ sto = Idle.sto

\* adv = safe_parse_advisory(data)
ParseAdvisory ==
    /\ prs.pc = "input"
    /\ prs' = [prs EXCEPT !.pc = "built",
                          !.adv = safe_parse_advisory(prs.data)]
    /\ UNCHANGED <<turnVars, guardVars, mrg, frs, sto>>

ParseSpec == ParseInit /\ [][ParseAdvisory]_vars

-----------------------------------------------------------------------------
(* HistSpec: the turn loop on a session that already holds a long history. *)

\* run_turn on a message the extractor finds nothing in: the user message,
\* the counter, compaction, then intake, plan and ask.
run_turn(state, user_text) ==
    LET start == compact_messages(
                    [add_user(state, user_text) EXCEPT !.turn_count = @ + 1])
    IN  ask_node(intake_node(start, <<"object", "unused">>,
                             [valid |-> TRUE, upd |-> IntakeExtraction]))

\* The stored state after n turns in which the user sent "pune", the
\* extractor found nothing and ask_node asked for the crop.
RECURSIVE Session(_)
Session(n) ==
    IF n = 0 THEN GraphState
    ELSE TheOnly({run_turn(before, <<"pune">>) : before \in {Session(n - 1)}})

HistInit ==
    /\ stored \in {Session(HistTurns - 1), Session(HistTurns)}
    /\ s = stored
    /\ pc = "idle"
    /\ exc = "none"
    /\ calls = [tool \in TOOLS |-> 0]
    /\ now = 0
    /\ ticks = 0
    /\ ran = {}
    /\ IdleGuard
    /\ mrg = Idle.mrg
    /\ frs = Idle.frs
    /\ prs = Idle.prs
    /\ sto = Idle.sto

HistSpec == HistInit /\ [][Next]_vars

-----------------------------------------------------------------------------
(* StoreSpec: StateStore.save and StateStore.load on a store of two chats. *)
(* The store maps a chat id to None, to the saved JSON object <<object>>,  *)
(* or to a record that does not parse, <<"corrupt", kind>>; a file that    *)
(* does not parse maps every chat id to <<"corrupt", "file">>.             *)

\* _read_all_json: the file as load and save see it.  A file that does not
\* parse is read as {} and written back as "{}".
_read_all_json(store) ==
    IF \A c \in DOMAIN store : store[c] = <<"corrupt", "file">>
    THEN [c \in DOMAIN store |-> None]
    ELSE store

\* save writing only the record of this chat, without reading the file.
save_without_read(store, state) ==
    LET Js(o) == IF o = None THEN <<"null">> ELSE <<"value", o[1]>>
        payload ==
            [chat_id |-> state.chat_id,
             messages |-> state.messages,
             context |-> [f \in DOMAIN state.context |->
                            IF f = "stage" THEN state.context[f]
                            ELSE Js(state.context[f])],
             observation |-> state.observation,
             weather |-> Js(state.weather),
             web |-> Js(state.web),
             advisory |-> Js(state.advisory),
             last_node |-> Js(state.last_node),
             turn_count |-> state.turn_count]
    IN  [[c \in DOMAIN store |-> None] EXCEPT ![state.chat_id] = Some(payload)]

\* save that appends the turn to a record another handler saved since the
\* load, instead of replacing the record.
save_merging_turns(store, state) ==
    LET old == _read_all_json(store)[state.chat_id]
        n == Len(state.messages)
        merged == IF Len(old) = 1 /\ old[1].turn_count >= state.turn_count
                     /\ n >= 2
                  THEN [state EXCEPT
                          !.turn_count = old[1].turn_count + 1,
                          !.messages = old[1].messages
                                       \o SubSeq(state.messages, n - 1, n)]
                  ELSE state
    IN
    LET Js(o) == IF o = None THEN <<"null">> ELSE <<"value", o[1]>>
        payload ==
            [chat_id |-> merged.chat_id,
             messages |-> merged.messages,
             context |-> [f \in DOMAIN merged.context |->
                            IF f = "stage" THEN merged.context[f]
                            ELSE Js(merged.context[f])],
             observation |-> merged.observation,
             weather |-> Js(merged.weather),
             web |-> Js(merged.web),
             advisory |-> Js(merged.advisory),
             last_node |-> Js(merged.last_node),
             turn_count |-> merged.turn_count]
    IN  [_read_all_json(store) EXCEPT ![merged.chat_id] = Some(payload)]

\* save: state.model_dump(mode="json") written under state.chat_id.  In the
\* JSON object an Optional field is null or the value.  _save_json reads
\* the file, sets the record of the chat and writes the file, with no await
\* in between.
save(store, state) ==
    LET Js(o) == IF o = None THEN <<"null">> ELSE <<"value", o[1]>>
        payload ==
            [chat_id |-> state.chat_id,
             messages |-> state.messages,
             context |-> [f \in DOMAIN state.context |->
                            IF f = "stage" THEN state.context[f]
                            ELSE Js(state.context[f])],
             observation |-> state.observation,
             weather |-> Js(state.weather),
             web |-> Js(state.web),
             advisory |-> Js(state.advisory),
             last_node |-> Js(state.last_node),
             turn_count |-> state.turn_count]
    IN  [_read_all_json(store) EXCEPT ![state.chat_id] = Some(payload)]

\* load returning the saved object as it is, without validating it.
load_without_validation(store, chat_id) ==
    LET Opt(j) == IF j[1] = "null" THEN None ELSE Some(j[2])
        data == store[chat_id][1]
    IN  IF store[chat_id] = None \/ Len(store[chat_id]) = 2
        THEN [GraphState EXCEPT !.chat_id = chat_id]
        ELSE [chat_id |-> data.chat_id,
              messages |-> data.messages,
              context |-> [f \in DOMAIN data.context |->
                             IF f = "stage" THEN data.context[f]
                             ELSE Opt(data.context[f])],
              observation |-> data.observation,
              weather |-> Opt(data.weather),
              web |-> Opt(data.web),
              advisory |-> Opt(data.advisory),
              last_node |-> Opt(data.last_node),
              turn_count |-> data.turn_count]

\* load: GraphState.model_validate of the saved object, which validates the
\* stage, the urgency and the Advisory again; GraphState(chat_id=chat_id)
\* when there is no object, when the record does not parse (every failure
\* is caught by `except Exception`) or when the object does not validate.
load(store, chat_id) ==
    LET Opt(j) == IF j[1] = "null" THEN None ELSE Some(j[2])
        fresh == [GraphState EXCEPT !.chat_id = chat_id]
        data == store[chat_id][1]
        adv == IF data.advisory[1] = "null" THEN None
               ELSE safe_parse_advisory(data.advisory[2])
        valid == /\ data.context.stage \in CropStage
                 /\ data.observation.urgency \in {"low", "medium", "high"}
                 /\ data.advisory[1] # "null" => adv # None
    IN  IF store[chat_id] = None THEN fresh
        ELSE IF Len(store[chat_id]) = 2 THEN fresh
        ELSE IF ~valid THEN fresh
        ELSE [chat_id |-> data.chat_id,
              messages |-> data.messages,
              context |-> [f \in DOMAIN data.context |->
                             IF f = "stage" THEN data.context[f]
                             ELSE Opt(data.context[f])],
              observation |-> data.observation,
              weather |-> Opt(data.weather),
              web |-> Opt(data.web),
              advisory |-> adv,
              last_node |-> Opt(data.last_node),
              turn_count |-> data.turn_count]

\* The states to save are states the graph returns: a new session, one
\* after two questions, one with weather and web context, and that one
\* after advice_node on each synthesizer object.
StoreInit ==
    /\ IdleTurn
    /\ IdleGuard
    /\ mrg = Idle.mrg
    /\ frs = Idle.frs
    /\ prs = Idle.prs
    /\ LET ok == <<"json", "unused", "unused">>
           base == [add_user(GraphState, <<"19", ",", "72">>) EXCEPT
                      !.turn_count = 1,
                      !.context = [FarmerContext EXCEPT
                                     !.crop = Some(<<"wheat">>),
                                     !.stage = "vegetative",
                                     !.lat = Some(19), !.lon = Some(72)],
                      !.observation = [Observation EXCEPT
                                         !.symptoms = <<<<"Yellowing">>>>,
                                         !.urgency = "high"]]
           w == weather_node(base, ok, [kind |-> "empty"], ok,
                             [kind |-> "dict", alerts |-> <<"Storm">>], 0).state
           wb == web_node(w, ok, [kind |-> "dict"], 0).state
           notes == [i \in 1..7 |-> IF i = 2 THEN <<" ">> ELSE LINE_SAFE]
           objects == SynthOutputs \cup
                      {RawAdvisory(HEAD_SAFE, <<LINE_SAFE>>, <<>>, "high",
                                   notes, FALSE)}
           states == {GraphState, Session(2), wb}
                     \cup {advice_node(st, <<"object", "unused">>, data)
                           : st \in {w, wb}, data \in objects}
       IN  \E st \in states, id \in {"chat1", "chat2"} :
              sto = [pc |-> "start",
                     store |-> [c \in {"chat1", "chat2"} |-> None],
                     state |-> [st EXCEPT !.chat_id = id],
                     asked |-> id,
                     was |-> None,
                     loaded |-> [st EXCEPT !.chat_id = id]]

\* store.save(new_state)
StoreSave ==
    /\ sto.pc = "start"
    /\ sto' = [sto EXCEPT !.pc = "saved", !.store = save(@, sto.state)]
    /\ UNCHANGED <<turnVars, guardVars, mrg, frs, prs>>

\* on_button, stage quick-set, up to its store.save: the stage is the
\* callback data after "stage:", stripped and lower-cased.  The keyboard
\* offers seven stages; a client can send other data.
OnButton ==
    /\ sto.pc = "saved"
    /\ \E stage \in {"sowing", "germination", "vegetative", "flowering",
                     "fruiting", "maturity", "harvest", "blooming"} :
          LET state == [load(sto.store, sto.state.chat_id)
                           EXCEPT !.context.stage = stage]
          IN  sto' = [sto EXCEPT !.pc = "set", !.state = state,
                                 !.store = save(@, state)]
    /\ UNCHANGED <<turnVars, guardVars, mrg, frs, prs>>

\* The stored data is damaged from outside: the file no longer parses, or
\* the record of the chat is not JSON, is an empty object, is not an
\* object, or lacks a required field.
Corrupt ==
    /\ sto.pc = "saved"
    /\ \E kind \in {"file", "not_json", "empty_object", "not_object",
                     "missing_field"} :
          sto' = [sto EXCEPT
                    !.pc = "corrupt",
                    !.store = IF kind = "file"
                              THEN [c \in DOMAIN @ |-> <<"corrupt", "file">>]
                              ELSE [@ EXCEPT ![sto.state.chat_id] =
                                               <<"corrupt", kind>>]]
    /\ UNCHANGED <<turnVars, guardVars, mrg, frs, prs>>

\* state = store.load(chat_id)
StoreLoad ==
    /\ sto.pc \in {"start", "saved", "set", "corrupt"}
    /\ \E chat_id \in {"chat1", "chat2"} :
          sto' = [sto EXCEPT
                    !.pc = IF sto.pc = "corrupt" THEN "recovered" ELSE "loaded",
                    !.asked = chat_id,
                    !.was = sto.store[chat_id],
                    !.loaded = load(sto.store, chat_id),
                    !.store = _read_all_json(@)]
    /\ UNCHANGED <<turnVars, guardVars, mrg, frs, prs>>

StoreNext == StoreSave \/ OnButton \/ Corrupt \/ StoreLoad

StoreSpec == StoreInit /\ [][StoreNext]_vars

----------------------------------------------------------------------------
(* ConcSpec: on_text handlers whose load, run_turn and save steps          *)
(* interleave.  Handlers a1 and a2 serve chat1, handler b serves chat2.    *)
(* sto.alone is the store in which the turns of each chat ran one after    *)
(* another, in the order of their saves.                                   *)

\* The chat and the message text of each handler.
Handler ==
    [a1 |-> [chat_id |-> "chat1", text |-> <<"pune">>],
     a2 |-> [chat_id |-> "chat1", text |-> <<"hello">>],
     b  |-> [chat_id |-> "chat2", text |-> <<"nashik">>]]

ConcInit ==
    /\ IdleTurn
    /\ IdleGuard
    /\ mrg = Idle.mrg
    /\ frs = Idle.frs
    /\ prs = Idle.prs
    /\ sto = [pc |-> "conc",
              store |-> [c \in {"chat1", "chat2"} |-> None],
              alone |-> [c \in {"chat1", "chat2"} |-> None],
              last |-> "none",
              h |-> [x \in DOMAIN Handler |->
                       [pc |-> "idle", n |-> 0, state |-> GraphState,
                        seen |-> 0]]]

\* on_text: state = store.load(chat_id)
ConcLoad ==
    /\ \E x \in DOMAIN Handler :
          /\ sto.h[x].pc = "idle"
          /\ sto.h[x].n < MaxRounds
          /\ LET state == load(sto.store, Handler[x].chat_id)
             IN  sto' = [sto EXCEPT
                           !.store = _read_all_json(@),
                           !.last = x,
                           !.h[x] = [@ EXCEPT !.pc = "loaded",
                                              !.state = state,
                                              !.seen = state.turn_count]]
    /\ UNCHANGED <<turnVars, guardVars, mrg, frs, prs>>

\* on_text: new_state = await graph.run_turn(state, user_text=user_text);
\* when it raises, the except branch replies and nothing is saved.
ConcRun ==
    /\ \E x \in DOMAIN Handler, raised \in BOOLEAN :
          /\ sto.h[x].pc = "loaded"
          /\ sto' = [sto EXCEPT
                       !.last = x,
                       !.h[x] = IF raised
                                THEN [@ EXCEPT !.pc = "idle", !.n = @ + 1]
                                ELSE [@ EXCEPT
                                        !.pc = "ran",
                                        !.state = run_turn(@, Handler[x].text)]]
    /\ UNCHANGED <<turnVars, guardVars, mrg, frs, prs>>

\* on_text: store.save(new_state)
ConcSave ==
    /\ \E x \in DOMAIN Handler :
          /\ sto.h[x].pc = "ran"
          /\ sto' = [sto EXCEPT
                       !.store = save(@, sto.h[x].state),
                       !.alone = save(@, run_turn(load(@, Handler[x].chat_id),
                                                  Handler[x].text)),
                       !.last = x,
                       !.h[x] = [@ EXCEPT !.pc = "idle", !.n = @ + 1]]
    /\ UNCHANGED <<turnVars, guardVars, mrg, frs, prs>>

ConcSpec == ConcInit /\ [][ConcLoad \/ ConcRun \/ ConcSave]_vars

----------------------------------------------------------------------------
(* CoordSpec: step 1 of intake_node, the deterministic coordinate          *)
(* extraction, on every message of up to MaxTokens tokens.                 *)

CoordInit ==
    /\ IdleTurn
    /\ IdleGuard
    /\ \E text \in SeqsUpTo({"lat", "lon", ",", "19", "95", "-95", "200",
                             "-200"}, MaxTokens),
          old \in {FarmerContext,
                   [FarmerContext EXCEPT !.lat = Some(0), !.lon = Some(72)]} :
          mrg = [pc |-> "text", text |-> text, old |-> old,
                 pair |-> <<None, None>>, new |-> old]
    /\ frs = Idle.frs
    /\ prs = Idle.prs
    /\ sto = Idle.sto

\* intake_node: lat, lon = extract_lat_lon(last_user), and the context
\* after steps 1 and 2.
ExtractCoordinates ==
    /\ mrg.pc = "text"
    /\ mrg' = [mrg EXCEPT !.pc = "extracted",
                          !.pair = extract_lat_lon(mrg.text),
                          !.new = DeterministicIntake(mrg.old, mrg.text)]
    /\ UNCHANGED <<turnVars, guardVars, frs, prs, sto>>

CoordSpec == CoordInit /\ [][ExtractCoordinates]_vars

----------------------------------------------------------------------------
(* RetrySpec: one adapter call against a network (a model API) that holds  *)
(* MaxOutcomes outcomes ready, one per attempt the call might make.        *)

RetryInit ==
    /\ IdleTurn
    /\ IdleGuard
    /\ mrg = Idle.mrg
    /\ frs = Idle.frs
    /\ \E kind \in {"get", "post", "llm"} :
          \E plan \in [1..MaxOutcomes ->
                         IF kind = "llm" THEN LLM_FAILURES \union {"object"}
                         ELSE ATTEMPT_OUTCOMES] :
             prs = [pc |-> "call", kind |-> kind, plan |-> plan,
                    attempts |-> 0, failed |-> FALSE]
    /\ sto = Idle.sto

\* await _http_get_json(...) / _http_post_json(...) / _llm_json(...)
AdapterCall ==
    /\ prs.pc = "call"
    /\ prs' = IF prs.kind = "llm"
              THEN LET r == _llm_json(prs.plan)
                   IN  [prs EXCEPT !.pc = "returned", !.attempts = r.tries,
                                   !.failed = (r.raised # "none")]
              ELSE LET r == IF prs.kind = "get" THEN _http_get_json(prs.plan)
                            ELSE _http_post_json(prs.plan)
                   IN  [prs EXCEPT !.pc = "returned", !.attempts = r.attempts,
                                   !.failed = (r.kind # "value")]
    /\ UNCHANGED <<turnVars, guardVars, mrg, frs, sto>>

RetrySpec == RetryInit /\ [][AdapterCall]_vars

-----------------------------------------------------------------------------
(* Properties.                                                             *)

\* A node chosen by the router is about to run on state s.
Routed == pc \in {"ask", "weather", "web", "advice"}

\* A line matches one of the risky patterns the guardrail evaluates.
LineIsRisky(line) ==
    \E k \in 1..Len(risky_patterns) : re_search(risky_patterns[k], line)

\* C1: every turn that starts eventually leaves the loop, at the ask node
\* or the advice node (or, at worst, by an exception leaving run_turn).
C1_TurnTerminates ==
    (pc = "intake") ~>
        \/ pc = "end" /\ s.last_node \in {Some("ask"), Some("advice")}
        \/ pc = "raised"

\* C2: no tool failure makes run_turn raise: a running turn never ends in
\* an exception that reaches on_text.
C2_ToolFailureNeverRaises == pc # "raised"

\* C3: an Advisory stored by a turn that ended in advice holds no dosage
\* text: no risky pattern matches its headline, an action or a watch item.
C3_StoredAdvisoryHasNoDosageText ==
    (pc = "end" /\ s.last_node = Some("advice") /\ s.advisory # None) =>
        LET a == s.advisory[1]
        IN  /\ ~LineIsRisky(a.headline)
            /\ \A i \in 1..Len(a.actions_now) : ~LineIsRisky(a.actions_now[i])
            /\ \A i \in 1..Len(a.watch_out_for) :
                  ~LineIsRisky(a.watch_out_for[i])

\* C4: the sanitized form of a flagged Advisory has no action line that
\* matches a risky pattern of the guardrail's evaluation.
C4_SanitizedActionsNotRisky ==
    (gpc = "sanitized" /\ guard.needs_human_review) =>
        \A i \in 1..Len(gout.actions_now) : ~LineIsRisky(gout.actions_now[i])

\* C5: the guardrail flags exactly when the combined text is risky, the
\* urgency is high or the weather has alerts; ok is the negation of the
\* flag; the reasons are the reasons of the conditions that held, in order.
C5_GuardrailFlagsExactly ==
    (gpc \in {"evaluated", "sanitized"}) =>
        LET text == Join(<<gadv.headline>> \o gadv.actions_now
                         \o gadv.watch_out_for)
            a == \E pat \in {"number_unit", "per_unit", "mix", "dose", "ppm"} :
                    re_search(pat, text)
            b == gstate.observation.urgency = "high"
            c == gstate.weather # None /\ Len(gstate.weather[1].alerts) > 0
        IN  /\ guard.needs_human_review = (a \/ b \/ c)
            /\ guard.ok = ~guard.needs_human_review
            /\ guard.reasons =
                  (IF a THEN <<REASON_DOSAGE>> ELSE <<>>)
                  \o (IF b THEN <<REASON_URGENCY>> ELSE <<>>)
                  \o (IF c THEN <<REASON_ALERTS>> ELSE <<>>)

\* C5 witness: an evaluation in which all three conditions held.
C5_Witness ==
    /\ gpc = "evaluated"
    /\ Len(guard.reasons) = 3
    /\ gstate.observation.urgency = "high"

\* A state at the end of a turn holds an Advisory under high urgency or
\* weather alerts only with the review flag set and confidence low.
EscalatedWhenSevere(st) ==
    (st.advisory # None
     /\ (st.observation.urgency = "high"
         \/ (st.weather # None /\ st.weather[1].alerts # <<>>))) =>
        /\ st.advisory[1].needs_human_review
        /\ st.advisory[1].confidence = "low"

\* C6: at the end of every turn (the state run_turn returns, and the state
\* saved for the session) an Advisory held under high urgency or weather
\* alerts has needs_human_review = true and confidence = low.
C6_SevereAdvisoryEscalated ==
    /\ (pc = "end") => EscalatedWhenSevere(s)
    /\ EscalatedWhenSevere(stored)

\* C6 witness: a turn ends with an Advisory that benign text alone would
\* not have flagged, under weather alerts.
C6_Witness ==
    /\ pc = "end"
    /\ s.advisory # None
    /\ s.weather # None /\ s.weather[1].alerts # <<>>
    /\ s.observation.urgency = "low"
    /\ s.advisory[1].headline = HEAD_SAFE
    /\ s.advisory[1].actions_now = <<LINE_SAFE>>

\* C7: sanitizing a sanitized Advisory again changes nothing.
C7_SanitizeIdempotent ==
    (gpc = "sanitized" /\ guard.needs_human_review) =>
        _sanitize_advisory(gout, guard) = gout

\* The router's decision table as the specification states it.
DecisionTable(st, clock) ==
    LET c == st.context
        coords == c.lat # None /\ c.lon # None
    IN  CASE ~coords /\ ~NonBlank(c.location_text) -> "ask"
          [] OTHER ->
        CASE ~NonBlank(c.crop) -> "ask"
          [] OTHER ->
        CASE c.stage = "unknown" -> "ask"
          [] OTHER ->
        CASE coords /\ IsStale(st.weather, clock, 6) -> "weather"
          [] OTHER ->
        CASE Len(st.observation.symptoms) >= 1 /\ IsStale(st.web, clock, 24)
                -> "web"
          [] OTHER -> "advice"

\* Latitude and longitude are both absent or both non-zero.
PlainCoordinates(c) ==
    \/ c.lat = None /\ c.lon = None
    \/ c.lat # None /\ c.lon # None /\ c.lat[1] # 0 /\ c.lon[1] # 0

\* C8: on a state whose coordinates are both absent or both non-zero the
\* node the router selects is the one the first-match decision table gives.
C8_RouterIsDecisionTable ==
    (Routed /\ PlainCoordinates(s.context)) => pc = DecisionTable(s, now)

\* C8 witness: the router selected WEB by rule 5, the weather being fresh.
C8_Witness ==
    /\ pc = "web"
    /\ PlainCoordinates(s.context) /\ s.context.lat # None
    /\ s.weather # None

\* C9: a context with both coordinates set, one of them 0, has coordinates:
\* with crop and stage known the router selects WEATHER when the weather is
\* stale, and it does not select ASK for a missing location.
C9_ZeroCoordinateCounts ==
    (/\ Routed
     /\ s.context.lat # None /\ s.context.lon # None
     /\ NonBlank(s.context.crop) /\ s.context.stage # "unknown") =>
        /\ _is_weather_stale(s, now) => pc = "weather"
        /\ pc # "ask"

\* The three gates: a location representation, a crop, a known stage.
GatesPass(c) ==
    /\ (Truthy(c.lat) /\ Truthy(c.lon)) \/ NonBlank(c.location_text)
    /\ NonBlank(c.crop)
    /\ c.stage # "unknown"

\* C10: gating precedes tool use.  A node that calls geocoding, weather or
\* web search only ever runs on a state that passes the three gates, a
\* turn in which such a call was made passed them, and on a state that
\* fails a gate the only node the router selects is ask.
C10_GatingPrecedesTools ==
    /\ (pc \in {"weather", "web"}) => GatesPass(s.context)
    /\ (calls["geocode"] + calls["weather"] + calls["web"] > 0) =>
          GatesPass(s.context)
    /\ (Routed /\ ~GatesPass(s.context)) => pc = "ask"

\* C10 witness: coordinates and crop are known, the stage is not; the
\* router selected ask and no tool was called.
C10_Witness ==
    /\ pc = "ask"
    /\ Truthy(s.context.lat) /\ Truthy(s.context.lon)
    /\ NonBlank(s.context.crop)
    /\ s.context.stage = "unknown"
    /\ calls["weather"] = 0 /\ calls["web"] = 0

\* C11: a turn that ends with non-blank location text, no coordinates and
\* crop and stage known has invoked geocoding on the location text.
C11_GeocodesLocationText ==
    (/\ pc = "end"
     /\ s.context.lat = None /\ s.context.lon = None
     /\ NonBlank(s.context.location_text)
     /\ NonBlank(s.context.crop) /\ s.context.stage # "unknown") =>
        calls["geocode"] > 0


\* C12: the urgency of the observation never decreases under
\* low < medium < high: each merge returns an urgency at least the old one,
\* whatever the update's urgency is, and so does every sequence of merges.
C12_UrgencyNeverDecreases ==
    [][/\ mrg'.obs.urgency \in {"low", "medium", "high"}
       /\ UrgencyOrder(mrg'.obs.urgency) >= UrgencyOrder(mrg.obs.urgency)
       /\ UrgencyOrder(mrg'.obs.urgency) >= UrgencyOrder(mrg.old_obs.urgency)
      ]_vars

\* C12: a stored urgency of high has met an update whose urgency is low
\* in a later merge.
C12_Witness ==
    /\ mrg.pc = "merged"
    /\ mrg.turn = 2
    /\ mrg.old_obs.urgency = "high"
    /\ mrg.upd.urgency = Some(<<"low">>)
    /\ mrg.obs.urgency = "high"


\* C13: a non-blank stage of the update that, trimmed and lower-cased, is
\* not one of the ten stages is merged as unknown; one that is a stage is
\* merged as that stage.  The merged context always holds a stage.
C13_InvalidStageBecomesUnknown ==
    (mrg.pc = "merged" /\ NonBlank(mrg.upd.stage)) =>
        LET st == StrLower(StrStrip(mrg.upd.stage[1]))
            valid == Len(st) = 1 /\ st[1] \in CropStage
        IN  /\ mrg.ctx.stage \in CropStage
            /\ valid => mrg.ctx.stage = st[1]
            /\ ~valid => mrg.ctx.stage = "unknown"

\* C13: a stored stage of flowering has met an update whose stage is not
\* in the enumeration and has become unknown.
C13_Witness ==
    /\ mrg.pc = "merged"
    /\ mrg.turn = 1
    /\ mrg.old_ctx.stage = "flowering"
    /\ mrg.upd.stage = Some(<<"blooming">>)
    /\ mrg.ctx.stage = "unknown"

\* C14: the context merge keeps every field whose update value is absent or
\* blank, never changes latitude or longitude, and leaves no field empty
\* that held a value.
C14_MergeContextFrame ==
    mrg.pc = "merged" =>
        LET texts == {"crop", "location_text", "sowing_date", "irrigation",
                      "soil_type", "notes"}
        IN  /\ \A f \in texts \cup {"stage"} :
                  ~NonBlank(mrg.upd[f]) => mrg.ctx[f] = mrg.old_ctx[f]
            /\ mrg.ctx.lat = mrg.old_ctx.lat
            /\ mrg.ctx.lon = mrg.old_ctx.lon
            /\ \A f \in texts :
                  NonBlank(mrg.old_ctx[f]) => NonBlank(mrg.ctx[f])
            /\ DOMAIN mrg.ctx = DOMAIN mrg.old_ctx

\* C14: a context with every field set has met an update whose crop is
\* blank, whose irrigation is empty and whose soil type is given.
C14_Witness ==
    /\ mrg.pc = "merged"
    /\ mrg.old_ctx.crop = Some(<<"rice">>)
    /\ mrg.old_ctx.lat = Some(18)
    /\ mrg.old_ctx.irrigation = Some(<<"canal">>)
    /\ mrg.upd.crop = Some(<<" ", " ">>)
    /\ mrg.upd.irrigation = Some(<<>>)
    /\ mrg.upd.soil_type = Some(Padded(<<"clay">>))
    /\ mrg.ctx.crop = Some(<<"rice">>)
    /\ mrg.ctx.soil_type = Some(<<"clay">>)

\* The list new is old followed by the entries of upd, trimmed, in the
\* order of upd, each unless blank or equal to an earlier entry of the list
\* up to case.
AdditiveUnique(old, upd, new) ==
    LET Low(x) == StrLower(x)
        Entry(k) == StrStrip(upd[k])
        First(x) == CHOOSE k \in 1..Len(upd) :
                        /\ Low(Entry(k)) = Low(x)
                        /\ \A k2 \in 1..(k - 1) : Low(Entry(k2)) # Low(x)
        added == (Len(old) + 1)..Len(new)
        NoDup(l) == \A i \in 1..Len(l), j \in 1..Len(l) :
                        i # j => Low(l[i]) # Low(l[j])
    IN  /\ Len(new) >= Len(old)
        /\ SubSeq(new, 1, Len(old)) = old
        /\ \A i \in added :
              /\ new[i] # <<>>
              /\ \E k \in 1..Len(upd) : Entry(k) = new[i]
              /\ \A j \in 1..(i - 1) : Low(new[j]) # Low(new[i])
              /\ new[i] = Entry(First(new[i]))
        /\ \A i \in added, j \in added :
              i < j => First(new[i]) < First(new[j])
        /\ \A k \in 1..Len(upd) :
              Entry(k) # <<>> =>
                  \E j \in 1..Len(new) : Low(new[j]) = Low(Entry(k))
        /\ NoDup(old) => NoDup(new)

\* C15: the observation merge appends to the symptoms and to the pests:
\* the old list is a prefix of the new one, and an update entry is appended,
\* in update order and with its first casing, only if it is not blank and
\* not in the list already, compared without case.
C15_MergeObservationAdditive ==
    mrg.pc = "merged" =>
        /\ AdditiveUnique(mrg.old_obs.symptoms, mrg.upd.symptoms,
                          mrg.obs.symptoms)
        /\ AdditiveUnique(mrg.old_obs.pests_seen, mrg.upd.pests_seen,
                          mrg.obs.pests_seen)

\* C15: a list holding Yellowing and spots has met an update with a padded
\* duplicate, blank entries, a new entry twice and a duplicate in another
\* case; only the new entry was appended, once.
C15_Witness ==
    /\ mrg.pc = "merged"
    /\ mrg.old_obs.symptoms = <<<<"Yellowing">>, <<"spots">>>>
    /\ Len(mrg.upd.symptoms) = 6
    /\ mrg.obs.symptoms = <<<<"Yellowing">>, <<"spots">>, <<"wilting">>>>
    /\ mrg.old_obs.pests_seen = <<<<"aphids">>>>
    /\ mrg.obs.pests_seen = <<<<"aphids">>, <<"mites">>>>


C17_AdvisoryListsCapped ==
    (prs.pc = "built" /\ prs.adv # None) =>
        LET adv == prs.adv[1]
            Clean(l) == \A i \in 1..Len(l) : StrStrip(l[i]) # <<>>
        IN  /\ Len(adv.actions_now) <= 7 /\ Clean(adv.actions_now)
            /\ Len(adv.watch_out_for) <= 5 /\ Clean(adv.watch_out_for)
            /\ Len(adv.next_questions) <= 3 /\ Clean(adv.next_questions)
            /\ Len(adv.safety_notes) <= 6 /\ Clean(adv.safety_notes)


\* C18: the state a turn returns never holds more than 16 messages,
\* whichever node ended the turn.
C18_ReturnedMessagesBounded ==
    pc = "end" => Len(s.messages) <= 16


\* C19: a turn that returns has appended to the stored messages the user's
\* message and, after it, exactly one assistant message, and has raised
\* the turn counter by one.
C19_OneReplyPerTurn ==
    pc = "end" =>
        LET n == Len(s.messages)
            m == Len(stored.messages)
        IN  /\ s.turn_count = stored.turn_count + 1
            /\ n >= 2
            /\ s.messages[n].role = "assistant"
            /\ s.messages[n - 1].role = "user"
            /\ s.messages[n - 1].content \in UserTexts
            /\ \E k \in 0..m :
                  SubSeq(s.messages, 1, n - 2) = SubSeq(stored.messages, k + 1, m)

\* C19: a turn on a session of 16 messages has returned through ask_node,
\* and the oldest two messages made room for the new pair.
C19_Witness ==
    /\ pc = "end"
    /\ s.last_node = Some("ask")
    /\ Len(stored.messages) = 16
    /\ Len(s.messages) = 16
    /\ SubSeq(s.messages, 1, 14) = SubSeq(stored.messages, 3, 16)


\* C20: a load of the chat whose state was saved last returns that state,
\* equal in every field, and a load of a chat that was never saved returns
\* the fresh state of that chat.
C20_StoreRoundTrip ==
    sto.pc = "loaded" =>
        /\ (sto.store[sto.asked] # None /\ sto.asked = sto.state.chat_id) =>
              sto.loaded = sto.state
        /\ sto.store[sto.asked] = None =>
              sto.loaded = [GraphState EXCEPT !.chat_id = sto.asked]


\* C21: a load of a chat whose record does not parse, or parses to an
\* object that does not validate, returns the fresh state of that chat:
\* no messages, default context and observation, turn counter 0.
C21_CorruptRecordLoadsFresh ==
    LET unparsed == Len(sto.was) = 2
        invalid == Len(sto.was) = 1 /\ sto.was[1].context.stage \notin CropStage
    IN  (sto.pc \in {"loaded", "recovered"} /\ (unparsed \/ invalid)) =>
            /\ sto.loaded.chat_id = sto.asked
            /\ sto.loaded.messages = <<>>
            /\ sto.loaded.context = FarmerContext
            /\ sto.loaded.observation = Observation
            /\ sto.loaded.turn_count = 0
            /\ sto.loaded = [GraphState EXCEPT !.chat_id = sto.asked]

\* C21: a chat with messages was saved, its record was replaced by text
\* that is not JSON, and the chat was loaded.
C21_Witness ==
    /\ sto.pc = "recovered"
    /\ sto.was = <<"corrupt", "not_json">>
    /\ sto.state.messages # <<>>
    /\ sto.asked = sto.state.chat_id
    /\ sto.loaded.messages = <<>>


\* C22: chat2 is served by one handler while the turns of chat1 interleave
\* with it in every order.  The record stored for chat2 always equals the
\* record its turns produce when run alone, and a step of a handler of
\* chat1 never changes the record of chat2 (nor a step of chat2's handler
\* the record of chat1).
C22_SessionsIndependent ==
    /\ [](sto.store["chat2"] = sto.alone["chat2"])
    /\ [][\A c \in {"chat1", "chat2"} :
            Handler[sto'.last].chat_id # c => sto'.store[c] = sto.store[c]]_vars

\* C22: chat2 has a saved record of two turns and a handler of chat1 saved
\* last, after loading before chat2's second save.
C22_Witness ==
    /\ sto.pc = "conc"
    /\ sto.last = "a1"
    /\ sto.h["a1"].pc = "idle" /\ sto.h["a1"].n = 1
    /\ sto.store["chat1"] # None
    /\ sto.h["b"].n = 2
    /\ sto.store["chat2"] # None
    /\ sto.store["chat2"][1].turn_count = 2


C24_ToolFailureKeepsSnapshot ==
    [][/\ pc = "weather" =>
            /\ \/ s'.weather = s.weather
               \/ /\ s'.weather # None
                  /\ s'.weather[1].fetched_at_utc = IsoFormat(now)
            /\ s'.web = s.web
            /\ pc' = "plan"
       /\ pc = "web" =>
            /\ \/ s'.web = s.web
               \/ /\ s'.web # None
                  /\ s'.web[1].fetched_at_utc = IsoFormat(now)
            /\ s'.weather = s.weather
            /\ pc' = "plan"]_vars


\* C25: in a turn none of whose weather and web calls has failed, the nodes
\* run one at a time in this order: intake first and once; the weather
\* node only when neither the weather nor the web node has run; the web
\* node only when it has not run; one terminal node, ask or advice, after
\* which the turn ends; and between two nodes plan_node and the router run.
C25_NodeOrder ==
    "failed" \notin ran =>
        /\ pc = "intake" => ran = {}
        /\ pc \notin {"idle", "intake"} => "intake" \in ran
        /\ pc = "weather" => ran \cap {"weather", "web", "ask", "advice"} = {}
        /\ pc = "web" => ran \cap {"web", "ask", "advice"} = {}
        /\ pc \in {"plan", "ask", "advice"} => ran \cap {"ask", "advice"} = {}
        /\ pc = "end" => \/ ran \cap {"ask", "advice"} = {"ask"}
                         \/ ran \cap {"ask", "advice"} = {"advice"}
        /\ pc # "raised"

\* C25: a turn ran intake, weather, web and advice, every call succeeding.
C25_Witness ==
    /\ pc = "end"
    /\ ran = {"intake", "weather", "web", "advice"}


\* C26: sanitize of a flagged Advisory returns needs_human_review = TRUE,
\* confidence "low", 1 to 7 action items, exactly the fixed fallback action
\* when every original action was removed, and at most 6 safety notes;
\* sanitize of an Advisory that is not flagged returns it unchanged.
C26_SanitizeResult ==
    gpc = "sanitized" =>
        IF guard.needs_human_review
        THEN /\ gout.needs_human_review = TRUE
             /\ gout.confidence = "low"
             /\ Len(gout.actions_now) \in 1..7
             /\ (\A i \in 1..Len(gadv.actions_now) :
                    is_risky_line(gadv.actions_now[i]))
                  => gout.actions_now = <<FALLBACK_ACTION>>
             /\ Len(gout.safety_notes) <= 6
        ELSE gout = gadv

\* C26: a flagged Advisory of high confidence whose two actions were both
\* removed and whose safety notes were cut to 6.
C26_Witness ==
    /\ gpc = "sanitized"
    /\ guard.needs_human_review
    /\ gadv.confidence = "high"
    /\ Len(gadv.actions_now) = 2
    /\ gout.actions_now = <<FALLBACK_ACTION>>
    /\ Len(gadv.safety_notes) = 5
    /\ Len(gout.safety_notes) = 6


\* C27: the safety notes of a sanitized flagged Advisory contain the fixed
\* disclaimer, however many safety notes the synthesizer supplied.
C27_DisclaimerPresent ==
    (gpc = "sanitized" /\ guard.needs_human_review) =>
        \E i \in 1..Len(gout.safety_notes) : gout.safety_notes[i] = DISCLAIMER


\* C28: when a turn has ended in ask_node, the last message is the one
\* assistant message of the turn, right after the user message, and it is
\* the question for the first missing fact in the order location, crop,
\* stage: the fact whose router rule selected ask.
C28_AskQuestionByPriority ==
    (pc = "end" /\ s.last_node = Some("ask")) =>
        LET c == s.context
            n == Len(s.messages)
            no_location == /\ ~(Truthy(c.lat) /\ Truthy(c.lon))
                           /\ ~NonBlank(c.location_text)
        IN  /\ n >= 2
            /\ s.messages[n - 1].role = "user"
            /\ s.messages[n].role = "assistant"
            /\ no_location \/ ~NonBlank(c.crop) \/ c.stage = "unknown"
            /\ s.messages[n].content =
                  IF no_location THEN ASK_LOCATION
                  ELSE IF ~NonBlank(c.crop) THEN ASK_CROP
                  ELSE ASK_STAGE

\* C28: a turn ended in ask_node with the location and the crop both
\* missing, and the question is the one for the location.
C28_Witness ==
    /\ pc = "end"
    /\ s.last_node = Some("ask")
    /\ ~Truthy(s.context.lat) /\ ~NonBlank(s.context.location_text)
    /\ ~NonBlank(s.context.crop)
    /\ s.messages[Len(s.messages)].content = ASK_LOCATION


\* C29: when the extractor fails in intake_node, the graph goes on to
\* plan_node and the router; the context after the node holds the
\* coordinates extracted from the message (where the context had none) and
\* the message adopted as location text (where the context had none and
\* the message has at most 120 characters); every other context field and
\* the Observation are as before the node.  A turn whose extractor failed
\* and whose weather and web calls did not fail does not raise.
C29_ExtractorFailureKeepsTurn ==
    /\ []("extract_failed" \in ran /\ "failed" \notin ran => pc # "raised")
    /\ [][(pc = "intake" /\ "extract_failed" \in ran') =>
            LET last_user == LastUser(s.messages)
                ll == extract_lat_lon(last_user)
                c == s.context
                d == s'.context
            IN  /\ pc' = "plan"
                /\ s'.observation = s.observation
                /\ \A f \in DOMAIN c \ {"lat", "lon", "location_text"} :
                      d[f] = c[f]
                /\ d.lat = IF ll[1] # None /\ ll[2] # None /\ ~Truthy(c.lat)
                           THEN ll[1] ELSE c.lat
                /\ d.lon = IF ll[1] # None /\ ll[2] # None /\ ~Truthy(c.lon)
                           THEN ll[2] ELSE c.lon
                /\ d.location_text =
                      IF ~TruthyStr(c.location_text) /\ last_user # <<>>
                         /\ CharLen(last_user) <= 120
                      THEN Some(StrStrip(last_user)) ELSE c.location_text]_vars

\* C29: the extractor failed on the message "19,72" of a new session; the
\* context holds the coordinates and the location text, and the turn ended
\* in ask_node.
C29_Witness ==
    /\ pc = "end"
    /\ "extract_failed" \in ran
    /\ "ask" \in ran
    /\ s.context.lat = Some(19) /\ s.context.lon = Some(72)
    /\ s.context.location_text = Some(<<"19", ",", "72">>)
    /\ s.context.crop = None


\* C30: extract_lat_lon returns no pair, or a pair with the latitude in
\* [-90, 90] and the longitude in [-180, 180].  When the first match of
\* the message has a component out of range, it returns no pair, whatever
\* follows the match, and intake_node leaves the context's latitude and
\* longitude as they were.
C30_CoordinatesInRange ==
    mrg.pc = "extracted" =>
        LET hits == {i \in 1..Len(mrg.text) : LatLonAt(mrg.text, i) # None}
            first == CHOOSE i \in hits : \A j \in hits : i <= j
            m == LatLonAt(mrg.text, first)[1]
            lat == mrg.pair[1]
            lon == mrg.pair[2]
        IN  /\ \/ lat = None /\ lon = None
               \/ /\ lat # None /\ lon # None
                  /\ lat[1] \in (0 - 90)..90
                  /\ lon[1] \in (0 - 180)..180
            /\ (hits # {} /\ (m[1] \notin (0 - 90)..90
                              \/ m[2] \notin (0 - 180)..180))
                  => /\ lat = None /\ lon = None
                     /\ mrg.new.lat = mrg.old.lat
                     /\ mrg.new.lon = mrg.old.lon

\* C30: the message "19,200,19": its first match "19,200" has the
\* longitude 200; no pair is returned and the context keeps its
\* coordinates 0 and 72.
C30_Witness ==
    /\ mrg.pc = "extracted"
    /\ mrg.text = <<"19", ",", "200", ",", "19">>
    /\ mrg.pair = <<None, None>>
    /\ mrg.old.lat = Some(0)
    /\ mrg.new.lat = Some(0) /\ mrg.new.lon = Some(72)


\* C31: when the synthesizer has failed in advice_node (the model call
\* failed, its output was no JSON object, or the object is no valid
\* Advisory), the turn ends there: the last node is advice, the one
\* assistant message after the user message is the fixed fallback message,
\* and the state holds no Advisory.
C31_SynthesisFailureFallsBack ==
    (pc = "end" /\ "synth_failed" \in ran) =>
        LET n == Len(s.messages)
        IN  /\ s.last_node = Some("advice")
            /\ n >= 2
            /\ s.messages[n].role = "assistant"
            /\ s.messages[n].content = FALLBACK_MESSAGE
            /\ s.messages[n - 1].role = "user"
            /\ s.advisory = None

\* C31: the synthesizer failed in the second turn of a session whose first
\* turn had stored an Advisory.
C31_Witness ==
    /\ pc = "end"
    /\ "synth_failed" \in ran
    /\ stored.advisory # None
    /\ s.advisory = None
    /\ s.messages[Len(s.messages)].content = FALLBACK_MESSAGE


\* C32: the stored record changes only when run_turn has returned, and then
\* it becomes the whole returned state; while a turn runs, and when it
\* raises, the stored record stays the one stored before the message.
C32_TurnAllOrNothing ==
    [][/\ (pc = "end" /\ pc' = "idle") => stored' = s
       /\ pc # "end" => stored' = stored]_vars

\* C32: the second turn of a session raised after intake_node had changed
\* the context of the running state; the stored record is still the one
\* the first turn saved.
C32_Witness ==
    /\ pc = "raised"
    /\ stored.turn_count = 1
    /\ s.turn_count = 2
    /\ s.context # stored.context


\* C33: two turns on chat1 overlap when handler y has saved a turn built on
\* the same loaded state as the turn handler x is about to save.  The save
\* of x then replaces the record y saved: the stored record is the state x
\* returned, its turn counter is one greater than the loaded one, not two,
\* and it holds one user message more than the loaded state, the message
\* of x; the message of y is gone.
C33_LastSaveWins ==
    [][\A x \in {"a1", "a2"} :
         LET y == IF x = "a1" THEN "a2" ELSE "a1"
             users(ms) == {i \in 1..Len(ms) : ms[i].role = "user"}
             before == sto.store["chat1"]
             after == sto'.store["chat1"]
         IN  (/\ sto.h[x].pc = "ran" /\ sto'.h[x].pc = "idle"
              /\ sto.h[y].pc = "idle" /\ sto.h[y].seen = sto.h[x].seen
              /\ before # None
              /\ before[1].turn_count = sto.h[x].seen + 1
              /\ LastUser(before[1].messages) = Handler[y].text)
             => /\ after # None
                /\ after[1].turn_count = sto.h[x].seen + 1
                /\ after[1].messages = sto.h[x].state.messages
                /\ Cardinality(users(after[1].messages)) = sto.h[x].seen + 1
                /\ LastUser(after[1].messages) = Handler[x].text
                /\ \A i \in users(after[1].messages) :
                      i > 2 * sto.h[x].seen
                         => after[1].messages[i].content # Handler[y].text]_vars

\* C33: both handlers of chat1 loaded the empty session, a1 saved its turn
\* and then a2 saved: the record holds one turn with the message of a2.
C33_Witness ==
    /\ sto.pc = "conc"
    /\ sto.last = "a2"
    /\ sto.h["a1"].pc = "idle" /\ sto.h["a1"].n = 1 /\ sto.h["a1"].seen = 0
    /\ sto.h["a2"].pc = "idle" /\ sto.h["a2"].n = 1 /\ sto.h["a2"].seen = 0
    /\ sto.store["chat1"] # None
    /\ sto.store["chat1"][1].turn_count = 1
    /\ LastUser(sto.store["chat1"][1].messages) = <<"hello">>
    /\ sto.alone["chat1"][1].turn_count = 2


\* C34: one HTTP call makes at most 3 attempts; every attempt but the last
\* ended in a timeout or a transport error, never in an HTTP error status;
\* the call fails exactly when its last attempt did not yield JSON, also
\* when that was the third timeout.  One model call makes at most 2 tries
\* and fails exactly when none of them yielded an object.
C34_RetriesBounded ==
    prs.pc = "returned" =>
        LET n == prs.attempts
        IN  IF prs.kind = "llm"
            THEN /\ n \in 1..2
                 /\ \A k \in 1..(n - 1) : prs.plan[k] # "object"
                 /\ prs.failed <=> prs.plan[n] # "object"
                 /\ prs.failed => n = 2
            ELSE /\ n \in 1..3
                 /\ \A k \in 1..(n - 1) :
                       prs.plan[k] \in {"timeout", "transport_error"}
                 /\ prs.plan[n] \in {"timeout", "transport_error"} => n = 3
                 /\ prs.failed <=> prs.plan[n] # "json"

\* C34: a GET whose every attempt times out fails after the third attempt,
\* with a fourth outcome left unused.
C34_Witness ==
    /\ prs.pc = "returned"
    /\ prs.kind = "get"
    /\ \A k \in 1..MaxOutcomes : prs.plan[k] = "timeout"
    /\ prs.attempts = 3
    /\ prs.failed


\* C35: no message of a session, in the running turn or in the stored
\* state, is the symptom-detail prompt or the "recent changes" prompt; what
\* ask_node appends is the location, the crop or the stage question.
C35_OnlyGatingQuestions ==
    /\ \A st \in {s, stored} : \A i \in 1..Len(st.messages) :
          st.messages[i].content \notin {ASK_SYMPTOMS, ASK_CHANGES}
    /\ (pc = "end" /\ "ask" \in ran) =>
          s.messages[Len(s.messages)].content \in {ASK_LOCATION, ASK_CROP, ASK_STAGE}

\* C35: ask_node ran in a turn that has symptoms and no web results (the
\* case of the symptom-detail prompt) and asked for the crop.
C35_Witness ==
    /\ pc = "end"
    /\ "ask" \in ran
    /\ s.observation.symptoms # <<>>
    /\ s.web = None
    /\ s.messages[Len(s.messages)].content = ASK_CROP


\* C36: after steps 1 and 2 of intake_node, a context with both
\* coordinates set holds either the pair it held before the message or the
\* pair extracted from the message, never the latitude of one and the
\* longitude of the other.
C36_PairFromOneSource ==
    (mrg.pc = "extracted" /\ mrg.new.lat # None /\ mrg.new.lon # None) =>
        <<mrg.new.lat, mrg.new.lon>> \in {<<mrg.old.lat, mrg.old.lon>>, mrg.pair}


C38_AdvisoryOnlyFromThisTurn ==
    /\ (pc = "end" /\ s.advisory # None) =>
          /\ s.last_node = Some("advice")
          /\ "advice" \in ran
          /\ "synth_failed" \notin ran
    /\ (pc = "end" /\ (s.last_node = Some("ask") \/ "synth_failed" \in ran)) =>
          s.advisory = None
    /\ stored.advisory # None => stored.last_node = Some("advice")

\* C38: a session stored with an Advisory has run a later turn that ended
\* in ask_node, and the state of that turn has no Advisory.
C38_Witness ==
    /\ pc = "end"
    /\ stored.advisory # None
    /\ s.turn_count = stored.turn_count + 1
    /\ s.last_node = Some("ask")
    /\ "ask" \in ran
    /\ s.advisory = None


\* C39: intake_node run on a non-empty last user message of at most 120
\* characters leaves a context whose location text is non-blank, whatever
\* the extractor did; a turn on such a message never has the router's
\* location rule hold at plan_node and never ends with the location
\* question.
C39_ShortMessageGivesLocation ==
    /\ [][(/\ pc = "intake"
           /\ LastUser(s.messages) # <<>>
           /\ CharLen(LastUser(s.messages)) <= 120) =>
              NonBlank(s'.context.location_text)]_vars
    /\ []((/\ pc \in {"plan", "ask", "end"}
           /\ LastUser(s.messages) # <<>>
           /\ CharLen(LastUser(s.messages)) <= 120) =>
              /\ NonBlank(s.context.location_text)
              /\ ("ask" \in ran /\ pc = "end") =>
                    s.messages[Len(s.messages)].content # ASK_LOCATION)

\* C39: the first turn of a session on the message "pune", with a failed
\* extractor, has ended in ask_node: the location text is "pune" and the
\* question is the one for the crop.
C39_Witness ==
    /\ pc = "end"
    /\ stored.turn_count = 0
    /\ stored.context.location_text = None
    /\ LastUser(s.messages) = <<"pune">>
    /\ "extract_failed" \in ran
    /\ s.context.location_text = Some(<<"pune">>)
    /\ "ask" \in ran
    /\ s.messages[Len(s.messages)].content = ASK_CROP


\* C40: a load of a chat other than the one whose state was saved leaves
\* the stored record of the saved chat as it was, also when the stored
\* data cannot be read.
C40_LoadLeavesOtherRecords ==
    [][(/\ sto.pc \in {"start", "saved", "set", "corrupt"}
        /\ sto'.pc \in {"loaded", "recovered"}
        /\ sto'.asked # sto.state.chat_id) =>
           sto'.store[sto.state.chat_id] = sto.store[sto.state.chat_id]]_vars

=============================================================================
